---------------------------- MODULE Spec2Model ----------------------------
(***************************************************************************)
(* EquiVal: projection-and-valuation core (LBO simulators, DCF valuator,   *)
(* WACC estimator).                                                        *)
(*                                                                         *)
(* The Python code computes on floats.  The model computes on exact        *)
(* rationals [n |-> numerator, d |-> denominator > 0] in lowest terms, so  *)
(* that every comparison, min, max and division of the code is decided the *)
(* way the real-number formula decides it; binary rounding of floats is    *)
(* abstracted.  Python's None is the empty tuple, a present value x is the *)
(* one-element tuple <<x>>.                                                *)
(*                                                                         *)
(* One call of one function is one behaviour: the initial state holds the  *)
(* function's name and arguments (and its locals as they are at the top of *)
(* its loop), the actions are the iterations of its loop and its return.   *)
(***************************************************************************)
EXTENDS Integers, Sequences, FiniteSets, TLC

VARIABLES fn, args, locals, pc, ret

vars == <<fn, args, locals, pc, ret>>

-----------------------------------------------------------------------------
(* Exact rational arithmetic standing for Python float arithmetic.         *)

None == <<>>

Some(x) == <<x>>

Abs(x) == IF x < 0 THEN -x ELSE x

RECURSIVE GCD(_, _)
GCD(a, b) == IF b = 0 THEN a ELSE GCD(b, a % b)

Norm(n, d) ==
    LET g == GCD(Abs(n), d)
    IN  [n |-> n \div g, d |-> d \div g]

R(k) == [n |-> k, d |-> 1]

Q(n, d) == Norm(n, d)

Zero == R(0)

One == R(1)

RNeg(a) == [n |-> -a.n, d |-> a.d]

RAdd(a, b) ==
    LET g == GCD(a.d, b.d)
    IN  Norm(a.n * (b.d \div g) + b.n * (a.d \div g), (a.d \div g) * b.d)

RSub(a, b) == RAdd(a, RNeg(b))

RMul(a, b) ==
    LET g1 == GCD(Abs(a.n), b.d)
        g2 == GCD(Abs(b.n), a.d)
    IN  Norm((a.n \div g1) * (b.n \div g2), (a.d \div g2) * (b.d \div g1))

RInv(a) == IF a.n > 0 THEN [n |-> a.d, d |-> a.n] ELSE [n |-> -a.d, d |-> -a.n]

RDiv(a, b) == RMul(a, RInv(b))

(* a <= b, decided on the integer parts and then on the fractional parts   *)
(* (products of the operands themselves could exceed TLC's integers).      *)
RLe(a, b) ==
    LET ra == a.n % a.d
        rb == b.n % b.d
        fa == (a.n - ra) \div a.d
        fb == (b.n - rb) \div b.d
        g == GCD(a.d, b.d)
    IN  IF fa # fb THEN fa < fb
        ELSE ra * (b.d \div g) <= rb * (a.d \div g)

RLt(a, b) == ~RLe(b, a)

RECURSIVE RPow(_, _)
RPow(a, k) == IF k = 0 THEN One ELSE RMul(a, RPow(a, k - 1))

(* Python's builtin min(a, b) and max(a, b).                               *)
RMin(a, b) == IF RLt(b, a) THEN b ELSE a

RMax(a, b) == IF RLt(a, b) THEN b ELSE a

(* Sequences of length 1..n over S.                                        *)
SeqsUpTo(S, n) == UNION {[1..k -> S] : k \in 1..n}

-----------------------------------------------------------------------------
(* Inputs of the LBO simulators.                                           *)

MaxYears == 2

FirstYear == 2025

FracFcfValues == {R(30), R(200), R(2000)}

FcfValues == {R(-50), R(200), R(2000)}

InitialDebts == {R(0), R(1000)}

InterestRates == {R(0), Q(2, 25)}

RepaymentRates == {R(0), Q(1, 5), R(1)}

PurchasePrices == {R(1000)}

EquityRatios == {R(0), Q(3, 10), R(1)}

(* A projection table whose cash-flow column is 'fcf'.                     *)
LboReadyTables ==
    {[k \in 1..Len(f) |-> [year |-> FirstYear + k - 1, fcf |-> f[k]]] :
        f \in SeqsUpTo(FracFcfValues, MaxYears)}

(* A projection table whose cash-flow column is 'fcf_operating'.           *)
OperatingFcfTables ==
    {[k \in 1..Len(f) |-> [year |-> FirstYear + k - 1, fcf_operating |-> f[k]]] :
        f \in SeqsUpTo(FracFcfValues, MaxYears)}

-----------------------------------------------------------------------------
(* Fractional-repayment LBO schedules (financials_fmp.py).                 *)

(* The year of simulate_lbo_cashflows with an equity cash flow that        *)
(* ignores the interest paid.                                              *)
simulate_lbo_cashflows_year_interest_unpaid(debt, fcf, interest_rate, repayment_rate) ==
    LET interest == RMul(debt, interest_rate)
        fcf_after_interest == RSub(fcf, interest)
        repayment == RMin(debt, RMul(fcf_after_interest, repayment_rate))
    IN  [debt |-> RSub(debt, repayment),
         equity_cashflow |-> RMax(RSub(fcf, repayment), Zero)]

(* One pass of the loop body: the year's interest, repayment, new debt     *)
(* and equity cash-flow from the debt at the start of the year.            *)
simulate_lbo_cashflows_year(debt, fcf, interest_rate, repayment_rate) ==
    LET interest == RMul(debt, interest_rate)
        fcf_after_interest == RSub(fcf, interest)
        repayment == RMin(debt, RMul(fcf_after_interest, repayment_rate))
    IN  [debt |-> RSub(debt, repayment),
         equity_cashflow |-> RMax(RSub(fcf_after_interest, repayment), Zero)]

calculate_equity_fcf_year(debt, fcf_operating, interest_rate, repayment_rate) ==
    LET interest == RMul(debt, interest_rate)
        fcf_after_interest == RSub(fcf_operating, interest)
        repayment == RMin(debt, RMul(fcf_after_interest, repayment_rate))
    IN  [debt |-> RSub(debt, repayment),
         equity_cf |-> RMax(RSub(fcf_after_interest, repayment), Zero)]

lbo_simulation_scenarios_year(debt, fcf_operating, interest_rate, debt_repayment_rate) ==
    LET interest == RMul(debt, interest_rate)
        fcf_after_interest == RSub(fcf_operating, interest)
        repayment == RMin(debt, RMul(fcf_after_interest, debt_repayment_rate))
    IN  [debt |-> RSub(debt, repayment),
         equity_cf |-> RMax(RSub(fcf_after_interest, repayment), Zero)]

(* debt_initial of lbo_simulation_scenarios.                               *)
lbo_simulation_scenarios_debt_initial(purchase_price, equity_ratio) ==
    LET equity_initial == RMul(purchase_price, equity_ratio)
    IN  RSub(purchase_price, equity_initial)

InitSimulateLboCashflows ==
    \E df \in LboReadyTables, d \in InitialDebts,
       r \in InterestRates, q \in RepaymentRates :
        /\ fn = "simulate_lbo_cashflows"
        /\ args = [df |-> df, initial_debt |-> d,
                   interest_rate |-> r, repayment_rate |-> q]
        /\ locals = [i |-> 1, debt |-> d,
                     debt_balances |-> <<>>, equity_cashflows |-> <<>>]

InitCalculateEquityFcf ==
    \E df \in OperatingFcfTables, d \in InitialDebts,
       r \in InterestRates, q \in RepaymentRates :
        /\ fn = "calculate_equity_fcf"
        /\ args = [df |-> df, initial_debt |-> d,
                   interest_rate |-> r, repayment_rate |-> q]
        /\ locals = [i |-> 1, debt |-> d,
                     debt_balances |-> <<>>, equity_cashflows |-> <<>>]

(* lbo_simulation_scenarios pre-fills the two columns before its loop.     *)
InitLboSimulationScenarios ==
    \E df \in OperatingFcfTables, p \in PurchasePrices, e \in EquityRatios,
       r \in InterestRates, q \in RepaymentRates :
        LET debt_initial == lbo_simulation_scenarios_debt_initial(p, e)
        IN  /\ fn = "lbo_simulation_scenarios"
            /\ args = [df |-> df, initial_debt |-> debt_initial,
                       interest_rate |-> r, repayment_rate |-> q]
            /\ locals = [i |-> 1, debt |-> debt_initial,
                         debt_balances |-> [k \in 1..Len(df) |-> debt_initial],
                         equity_cashflows |-> [k \in 1..Len(df) |-> Zero]]

InitFrac ==
    /\ pc = "loop"
    /\ ret = None
    /\ \/ InitSimulateLboCashflows
       \/ InitCalculateEquityFcf
       \/ InitLboSimulationScenarios

simulate_lbo_cashflows_row ==
    /\ fn = "simulate_lbo_cashflows"
    /\ pc = "loop"
    /\ locals.i <= Len(args.df)
    /\ LET y == simulate_lbo_cashflows_year(locals.debt, args.df[locals.i].fcf,
                                            args.interest_rate, args.repayment_rate)
       IN  locals' = [i |-> locals.i + 1, debt |-> y.debt,
                      debt_balances |-> Append(locals.debt_balances, y.debt),
                      equity_cashflows |->
                          Append(locals.equity_cashflows, y.equity_cashflow)]
    /\ UNCHANGED <<fn, args, pc, ret>>

calculate_equity_fcf_row ==
    /\ fn = "calculate_equity_fcf"
    /\ pc = "loop"
    /\ locals.i <= Len(args.df)
    /\ LET y == calculate_equity_fcf_year(locals.debt, args.df[locals.i].fcf_operating,
                                          args.interest_rate, args.repayment_rate)
       IN  locals' = [i |-> locals.i + 1, debt |-> y.debt,
                      debt_balances |-> Append(locals.debt_balances, y.debt),
                      equity_cashflows |-> Append(locals.equity_cashflows, y.equity_cf)]
    /\ UNCHANGED <<fn, args, pc, ret>>

lbo_simulation_scenarios_row ==
    /\ fn = "lbo_simulation_scenarios"
    /\ pc = "loop"
    /\ locals.i <= Len(args.df)
    /\ LET y == lbo_simulation_scenarios_year(locals.debt,
                                              args.df[locals.i].fcf_operating,
                                              args.interest_rate, args.repayment_rate)
       IN  locals' = [i |-> locals.i + 1, debt |-> y.debt,
                      debt_balances |->
                          [locals.debt_balances EXCEPT ![locals.i] = y.debt],
                      equity_cashflows |->
                          [locals.equity_cashflows EXCEPT ![locals.i] = y.equity_cf]]
    /\ UNCHANGED <<fn, args, pc, ret>>

(* After the last row the two lists become the columns of the returned     *)
(* table (lbo_simulation_scenarios goes on to derive its exit scenarios    *)
(* from this table, without changing it).                                  *)
frac_schedule_return ==
    /\ fn \in {"simulate_lbo_cashflows", "calculate_equity_fcf",
               "lbo_simulation_scenarios"}
    /\ pc = "loop"
    /\ locals.i > Len(args.df)
    /\ ret' = [raised |-> "none",
               debt_balance |-> locals.debt_balances,
               equity_cashflow |-> locals.equity_cashflows]
    /\ pc' = "done"
    /\ UNCHANGED <<fn, args, locals>>

NextFrac ==
    \/ simulate_lbo_cashflows_row
    \/ calculate_equity_fcf_row
    \/ lbo_simulation_scenarios_row
    \/ frac_schedule_return

SpecFrac == InitFrac /\ [][NextFrac]_vars

(* Debt at the start of year k of the schedule being simulated.            *)
FracDebtBegin(k) == IF k = 1 THEN args.initial_debt ELSE locals.debt_balances[k - 1]

FracInputsInDomain ==
    /\ RLe(Zero, args.initial_debt)
    /\ RLe(Zero, args.interest_rate)
    /\ RLe(Zero, args.repayment_rate)
    /\ RLe(args.repayment_rate, One)

(* C1: in the fractional-repayment schedule, for initial debt >= 0, rate   *)
(* >= 0 and repayment fraction in [0,1], the debt balance recorded at the  *)
(* end of every simulated year is <= the balance at the start of that year *)
(* and >= 0, whatever the year's FCF.                                      *)
C1_FracDebtNonIncreasing ==
    FracInputsInDomain =>
        \A k \in 1..(locals.i - 1) :
            /\ RLe(locals.debt_balances[k], FracDebtBegin(k))
            /\ RLe(Zero, locals.debt_balances[k])

-----------------------------------------------------------------------------
(* Full-sweep LBO model (valuation/lbo.py).                                *)

DebtContribs == {R(0), R(1000)}

EquityContribs == {R(0), R(300)}

ExitMultiples == {R(8), R(10)}

MultipleOn == {"fcf", "ebitda", "revenue"}

ColumnSets == {{"year", "fcf", "ebitda"}, {"year", "fcf"}, {"year", "ebitda"}}

(* The projected EBITDA grows with the year, so that rows differ.          *)
EbitdaOf(year) == R(150 * (year - FirstYear + 1))

YearOrders(n) ==
    {o \in [1..n -> FirstYear..(FirstYear + n - 1)] :
        \A a, b \in 1..n : a # b => o[a] # o[b]}

(* Rows of n projected years, in any row order.                            *)
ProjRows(n, fcfs) ==
    {[k \in 1..n |-> [year |-> o[k], fcf |-> f[k], ebitda |-> EbitdaOf(o[k])]] :
        o \in YearOrders(n), f \in [1..n -> fcfs]}

ProjTables(fcfs) ==
    {[columns |-> c, rows |-> r] :
        c \in ColumnSets, r \in UNION {ProjRows(n, fcfs) : n \in 1..MaxYears}}

(* df.sort_values("year"): insertion of each row at its place.             *)
RECURSIVE InsertByYear(_, _)
InsertByYear(row, sorted) ==
    IF sorted = <<>> \/ row.year < Head(sorted).year
    THEN <<row>> \o sorted
    ELSE <<Head(sorted)>> \o InsertByYear(row, Tail(sorted))

RECURSIVE SortByYear(_)
SortByYear(rows) ==
    IF rows = <<>> THEN <<>>
    ELSE InsertByYear(rows[Len(rows)], SortByYear(SubSeq(rows, 1, Len(rows) - 1)))

(* Lines 26-43: the sorted copy with its tracking columns, year 0 filled.  *)
lbo_model_frame(df_proj, equity_contrib, debt_contrib) ==
    LET sorted == SortByYear(df_proj.rows)
    IN  [k \in 1..Len(sorted) |->
            [year |-> sorted[k].year, fcf |-> sorted[k].fcf,
             ebitda |-> sorted[k].ebitda,
             debt_begin |-> IF k = 1 THEN debt_contrib ELSE Zero,
             interest |-> Zero, debt_repayment |-> Zero, debt_end |-> Zero,
             equity_begin |-> IF k = 1 THEN equity_contrib ELSE Zero,
             equity_end |-> Zero, cash |-> Zero]]

(* The year's row when the repayment is not capped at the opening debt.    *)
lbo_model_row_uncapped(row, interest_rate) ==
    LET debt_start == row.debt_begin
        interest == RMul(debt_start, interest_rate)
        repayment == RMax(RSub(row.fcf, interest), Zero)
        debt_repayment == repayment
        net_to_equity == RMax(RSub(RSub(row.fcf, interest), debt_repayment), Zero)
    IN  [row EXCEPT !.interest = interest,
                    !.debt_repayment = debt_repayment,
                    !.debt_end = RSub(debt_start, debt_repayment),
                    !.cash = net_to_equity,
                    !.equity_end = RAdd(row.equity_begin, net_to_equity)]

(* The year's row when only half of the cash left after interest goes to   *)
(* the repayment.                                                          *)
lbo_model_row_half_sweep(row, interest_rate) ==
    LET debt_start == row.debt_begin
        interest == RMul(debt_start, interest_rate)
        repayment == RMax(RDiv(RSub(row.fcf, interest), R(2)), Zero)
        debt_repayment == RMin(repayment, debt_start)
        net_to_equity == RMax(RSub(RSub(row.fcf, interest), debt_repayment), Zero)
    IN  [row EXCEPT !.interest = interest,
                    !.debt_repayment = debt_repayment,
                    !.debt_end = RSub(debt_start, debt_repayment),
                    !.cash = net_to_equity,
                    !.equity_end = RAdd(row.equity_begin, net_to_equity)]

(* Lines 49-69: the year's row after its interest, repayment, closing      *)
(* debt, cash and closing equity are written.                              *)
lbo_model_row(row, interest_rate) ==
    LET debt_start == row.debt_begin
        interest == RMul(debt_start, interest_rate)
        repayment == RMax(RSub(row.fcf, interest), Zero)
        debt_repayment == RMin(repayment, debt_start)
        net_to_equity == RMax(RSub(RSub(row.fcf, interest), debt_repayment), Zero)
    IN  [row EXCEPT !.interest = interest,
                    !.debt_repayment = debt_repayment,
                    !.debt_end = RSub(debt_start, debt_repayment),
                    !.cash = net_to_equity,
                    !.equity_end = RAdd(row.equity_begin, net_to_equity)]

(* Lines 48-73: iteration i of the loop, with the carry to year i+1.       *)
lbo_model_year(df, i, interest_rate) ==
    LET row == lbo_model_row(df[i], interest_rate)
    IN  [k \in 1..Len(df) |->
            IF k = i THEN row
            ELSE IF k = i + 1
                 THEN [df[k] EXCEPT !.debt_begin = row.debt_end,
                                    !.equity_begin = row.equity_end]
                 ELSE df[k]]

RECURSIVE lbo_model_loop(_, _, _)
lbo_model_loop(df, i, interest_rate) ==
    IF i > Len(df) THEN df
    ELSE lbo_model_loop(lbo_model_year(df, i, interest_rate), i + 1, interest_rate)

(* Lines 76-77: the first row of the exit year, else the last row.         *)
lbo_model_exit_idx(df, exit_year) ==
    LET exit_idx == {k \in 1..Len(df) : df[k].year = exit_year}
    IN  IF exit_idx # {} THEN CHOOSE k \in exit_idx : \A j \in exit_idx : k <= j
        ELSE Len(df)

(* The vector when the exit proceeds are not added to its last element.    *)
lbo_model_cashflows_without_exit(df, equity_contrib, final_equity) ==
    [k \in 1..(Len(df) + 1) |->
        IF k = 1 THEN RNeg(equity_contrib)
        ELSE RMax(RSub(RSub(df[k - 1].fcf, df[k - 1].interest),
                       df[k - 1].debt_repayment), Zero)]

(* Lines 87-92: the cash-flow vector handed to the IRR solver.             *)
lbo_model_cashflows(df, equity_contrib, final_equity) ==
    [k \in 1..(Len(df) + 1) |->
        IF k = 1 THEN RNeg(equity_contrib)
        ELSE LET net_to_equity ==
                     RMax(RSub(RSub(df[k - 1].fcf, df[k - 1].interest),
                               df[k - 1].debt_repayment), Zero)
             IN  IF k = Len(df) + 1 THEN RAdd(net_to_equity, final_equity)
                 ELSE net_to_equity]

(* Lines 75-109: exit value, final debt and equity, MOIC and the returned  *)
(* record, from the simulated table (the IRR is solved from 'cashflows').  *)
lbo_model_result(df, a) ==
    LET exit_year == IF a.exit_year = None THEN df[Len(df)].year ELSE a.exit_year[1]
        idx == lbo_model_exit_idx(df, exit_year)
    IN  IF a.multiple_on = "ebitda" /\ "ebitda" \notin a.df_proj.columns
        THEN [raised |-> "KeyError"]
        ELSE LET exit_value_base == IF a.multiple_on = "fcf" THEN df[idx].fcf
                                    ELSE df[idx].ebitda
                 exit_ev == RMul(exit_value_base, a.exit_ev_multiple)
                 final_debt == df[idx].debt_end
                 final_equity == RSub(exit_ev, final_debt)
             IN  [raised |-> "none",
                  df_lbo |-> [df EXCEPT ![idx].equity_end =
                                            RAdd(df[idx].equity_end, final_equity)],
                  exit_ev |-> exit_ev,
                  final_debt |-> final_debt,
                  final_equity |-> final_equity,
                  final_cash |-> df[idx].cash,
                  MOIC |-> IF a.equity_contrib # Zero
                           THEN Some(RDiv(final_equity, a.equity_contrib))
                           ELSE None,
                  cashflows |-> lbo_model_cashflows(df, a.equity_contrib, final_equity)]

(* Lines 21-24: the argument checks.                                       *)
lbo_model_rejects(a) ==
    \/ "fcf" \notin a.df_proj.columns
    \/ a.multiple_on \notin {"fcf", "ebitda"}

(* The whole call, as run_lbo_scenarios uses it.                           *)
lbo_model(a) ==
    IF lbo_model_rejects(a) THEN [raised |-> "ValueError"]
    ELSE lbo_model_result(
             lbo_model_loop(lbo_model_frame(a.df_proj, a.equity_contrib, a.debt_contrib),
                            1, a.interest_rate),
             a)

InitLboModel ==
    /\ fn = "lbo_model"
    /\ pc = "check"
    /\ locals = None
    /\ ret = None
    /\ \E t \in ProjTables(FcfValues), e \in EquityContribs, d \in DebtContribs,
          r \in InterestRates, m \in MultipleOn,
          y \in {None, Some(FirstYear)} :
           args = [df_proj |-> t, purchase_price |-> RAdd(e, d),
                   equity_contrib |-> e, debt_contrib |-> d, interest_rate |-> r,
                   exit_year |-> y, exit_ev_multiple |-> R(10), multiple_on |-> m]

lbo_model_check ==
    /\ fn = "lbo_model"
    /\ pc = "check"
    /\ IF lbo_model_rejects(args)
       THEN /\ ret' = [raised |-> "ValueError"]
            /\ pc' = "done"
            /\ UNCHANGED locals
       ELSE /\ locals' = [i |-> 1,
                          df |-> lbo_model_frame(args.df_proj, args.equity_contrib,
                                                 args.debt_contrib)]
            /\ pc' = "loop"
            /\ UNCHANGED ret
    /\ UNCHANGED <<fn, args>>

lbo_model_iter ==
    /\ fn = "lbo_model"
    /\ pc = "loop"
    /\ locals.i <= Len(locals.df)
    /\ locals' = [i |-> locals.i + 1,
                  df |-> lbo_model_year(locals.df, locals.i, args.interest_rate)]
    /\ UNCHANGED <<fn, args, pc, ret>>

lbo_model_return ==
    /\ fn = "lbo_model"
    /\ pc = "loop"
    /\ locals.i > Len(locals.df)
    /\ ret' = lbo_model_result(locals.df, args)
    /\ pc' = "done"
    /\ UNCHANGED <<fn, args, locals>>

NextLboModel ==
    \/ lbo_model_check
    \/ lbo_model_iter
    \/ lbo_model_return

SpecLboModel == InitLboModel /\ [][NextLboModel]_vars

(* The rows of the schedule whose year has been simulated.                 *)
LboSimulatedYears ==
    IF fn = "lbo_model" /\ pc \in {"loop", "done"} /\ locals # None
    THEN 1..(locals.i - 1) ELSE {}

(* C2: in lbo_model, for debt_contrib >= 0 and interest rate >= 0, every   *)
(* simulated year has 0 <= debt_repayment <= debt_begin and debt_repayment *)
(* <= max(fcf - interest, 0), hence 0 <= debt_end <= debt_begin.           *)
C2_FullSweepRepaymentBounded ==
    (fn = "lbo_model" /\ RLe(Zero, args.debt_contrib) /\ RLe(Zero, args.interest_rate)) =>
        \A k \in LboSimulatedYears :
            LET row == locals.df[k]
            IN  /\ RLe(Zero, row.debt_repayment)
                /\ RLe(row.debt_repayment, row.debt_begin)
                /\ RLe(row.debt_repayment, RMax(RSub(row.fcf, row.interest), Zero))
                /\ RLe(row.debt_end, row.debt_begin)
                /\ RLe(Zero, row.debt_end)

(* A finished two-year schedule with a partial repayment in one year and   *)
(* the rest of the debt swept in another.                                  *)
C2_Witness ==
    /\ fn = "lbo_model"
    /\ pc = "done"
    /\ ret.raised = "none"
    /\ \E j, k \in LboSimulatedYears :
        /\ RLt(Zero, locals.df[j].debt_repayment)
        /\ RLt(locals.df[j].debt_repayment, locals.df[j].debt_begin)
        /\ RLt(Zero, locals.df[k].debt_begin)
        /\ locals.df[k].debt_repayment = locals.df[k].debt_begin
        /\ RLt(locals.df[k].debt_repayment, RSub(locals.df[k].fcf, locals.df[k].interest))

-----------------------------------------------------------------------------
(* Multi-scenario sweep run_lbo_scenarios (valuation/lbo.py).              *)

MaxListLen == 2

SweepEquityRatios == {Q(3, 10), Q(2, 5)}

(* The sweep is run on full-length projections of a steady FCF, in         *)
(* ascending and in descending row order, with and without the columns it  *)
(* reads.                                                                  *)
SweepTables ==
    {[columns |-> c, rows |-> r] :
        c \in ColumnSets,
        r \in {x \in ProjRows(MaxYears, {R(200)}) :
                  \/ \A k \in 1..MaxYears : x[k].year = FirstYear + k - 1
                  \/ \A k \in 1..MaxYears : x[k].year = FirstYear + MaxYears - k}}

(* itertools.product(A, B, C) walked with a mistaken stride for B.         *)
product_at_bad_stride(k, A, B, C) ==
    <<A[((k - 1) \div (Len(B) * Len(C))) + 1],
      B[((k - 1) % Len(B)) + 1],
      C[((k - 1) % Len(C)) + 1]>>

(* Line 126: the k-th tuple of itertools.product(A, B, C), the last list   *)
(* varying fastest.                                                        *)
product_at(k, A, B, C) ==
    <<A[((k - 1) \div (Len(B) * Len(C))) + 1],
      B[(((k - 1) \div Len(C)) % Len(B)) + 1],
      C[((k - 1) % Len(C)) + 1]>>

product_len(A, B, C) == Len(A) * Len(B) * Len(C)

(* Lines 127-140: the lbo_model call of one combination.                   *)
run_lbo_scenarios_call(a, eq_ratio, rate, exit_ev_multiple) ==
    lbo_model([df_proj |-> a.df_proj,
               purchase_price |-> a.purchase_price,
               equity_contrib |-> RMul(a.purchase_price, eq_ratio),
               debt_contrib |-> RMul(a.purchase_price, RSub(One, eq_ratio)),
               interest_rate |-> rate,
               exit_year |-> Some(a.df_proj.rows[Len(a.df_proj.rows)].year),
               exit_ev_multiple |-> exit_ev_multiple,
               multiple_on |-> "fcf"])

(* Lines 142-161: the row appended for one combination.                    *)
run_lbo_scenarios_row(a, l, eq_ratio, rate, exit_ev_multiple, lbo_res) ==
    LET debt_contrib == RMul(a.purchase_price, RSub(One, eq_ratio))
        rows == a.df_proj.rows
        exit_ebitda == rows[Len(rows)].ebitda
    IN  [Equity_Ratio |-> eq_ratio,
         Interest_Rate |-> rate,
         Exit_EV_Multiple |-> exit_ev_multiple,
         Exit_EV |-> RMul(exit_ebitda, exit_ev_multiple),
         Final_Equity |-> lbo_res.final_equity,
         MOIC |-> lbo_res.MOIC,
         Initial_Debt_EBITDA |-> IF RLt(Zero, l.ebitda_initial)
                                 THEN Some(RDiv(debt_contrib, l.ebitda_initial))
                                 ELSE None,
         Final_Debt_EBITDA |-> IF RLt(Zero, l.ebitda_final)
                               THEN Some(RDiv(lbo_res.final_debt, l.ebitda_final))
                               ELSE None,
         Final_Debt |-> lbo_res.final_debt,
         Final_Cash |-> lbo_res.final_cash]

InitSweep ==
    /\ fn = "run_lbo_scenarios"
    /\ pc = "start"
    /\ locals = None
    /\ ret = None
    /\ \E t \in SweepTables, p \in PurchasePrices,
          ms \in SeqsUpTo(ExitMultiples, MaxListLen),
          es \in SeqsUpTo(SweepEquityRatios, MaxListLen),
          rs \in SeqsUpTo(InterestRates, MaxListLen) :
           args = [df_proj |-> t, purchase_price |-> p, exit_ev_multiples |-> ms,
                   equity_ratios |-> es, interest_rates |-> rs]

(* Lines 121-124: reading the 'ebitda' column fails when it is absent.     *)
run_lbo_scenarios_start ==
    /\ fn = "run_lbo_scenarios"
    /\ pc = "start"
    /\ IF "ebitda" \notin args.df_proj.columns
       THEN /\ ret' = [raised |-> "KeyError"]
            /\ pc' = "done"
            /\ UNCHANGED locals
       ELSE /\ locals' = [k |-> 1, scenarios |-> <<>>,
                          ebitda_initial |-> args.df_proj.rows[1].ebitda,
                          ebitda_final |->
                              args.df_proj.rows[Len(args.df_proj.rows)].ebitda]
            /\ pc' = "loop"
            /\ UNCHANGED ret
    /\ UNCHANGED <<fn, args>>

(* Lines 126-161: one combination; an error of lbo_model leaves the        *)
(* function.                                                               *)
run_lbo_scenarios_combination ==
    /\ fn = "run_lbo_scenarios"
    /\ pc = "loop"
    /\ locals.k <= product_len(args.equity_ratios, args.interest_rates,
                               args.exit_ev_multiples)
    /\ LET c == product_at(locals.k, args.equity_ratios, args.interest_rates,
                           args.exit_ev_multiples)
           lbo_res == run_lbo_scenarios_call(args, c[1], c[2], c[3])
       IN  IF lbo_res.raised # "none"
           THEN /\ ret' = [raised |-> lbo_res.raised]
                /\ pc' = "done"
                /\ UNCHANGED locals
           ELSE /\ locals' = [locals EXCEPT
                                !.k = locals.k + 1,
                                !.scenarios =
                                    Append(locals.scenarios,
                                           run_lbo_scenarios_row(args, locals, c[1], c[2],
                                                                 c[3], lbo_res))]
                /\ UNCHANGED <<pc, ret>>
    /\ UNCHANGED <<fn, args>>

run_lbo_scenarios_return ==
    /\ fn = "run_lbo_scenarios"
    /\ pc = "loop"
    /\ locals.k > product_len(args.equity_ratios, args.interest_rates,
                              args.exit_ev_multiples)
    /\ ret' = [raised |-> "none", rows |-> locals.scenarios]
    /\ pc' = "done"
    /\ UNCHANGED <<fn, args, locals>>

NextSweep ==
    \/ run_lbo_scenarios_start
    \/ run_lbo_scenarios_combination
    \/ run_lbo_scenarios_return

SpecSweep == InitSweep /\ [][NextSweep]_vars

SweepReturned == fn = "run_lbo_scenarios" /\ pc = "done" /\ ret.raised = "none"

(* The positions (i, j, m) of the three lists whose values are e, r, x.    *)
SweepPositions(e, r, x) ==
    {c \in (DOMAIN args.equity_ratios) \X (DOMAIN args.interest_rates)
            \X (DOMAIN args.exit_ev_multiples) :
        /\ args.equity_ratios[c[1]] = e
        /\ args.interest_rates[c[2]] = r
        /\ args.exit_ev_multiples[c[3]] = x}

SweepRowsOf(e, r, x) ==
    {k \in DOMAIN ret.rows :
        /\ ret.rows[k].Equity_Ratio = e
        /\ ret.rows[k].Interest_Rate = r
        /\ ret.rows[k].Exit_EV_Multiple = x}

(* C3: run_lbo_scenarios returns len(equity_ratios) * len(interest_rates)  *)
(* * len(exit_ev_multiples) rows, and every combination of the Cartesian   *)
(* product has its own row: a combination of values occupies as many rows  *)
(* as there are positions of the lists that yield it, exactly one when the *)
(* lists hold no repeated value, and no row holds anything else.           *)
C3_SweepComplete ==
    SweepReturned =>
        /\ Len(ret.rows) = Len(args.equity_ratios) * Len(args.interest_rates)
                               * Len(args.exit_ev_multiples)
        /\ \A e \in SweepEquityRatios, r \in InterestRates, x \in ExitMultiples :
               Cardinality(SweepRowsOf(e, r, x)) = Cardinality(SweepPositions(e, r, x))

(* A returned sweep over three two-element lists of distinct values:       *)
(* eight rows, eight different combinations.                               *)
C3_Witness ==
    /\ SweepReturned
    /\ Len(args.equity_ratios) = 2 /\ args.equity_ratios[1] # args.equity_ratios[2]
    /\ Len(args.interest_rates) = 2 /\ args.interest_rates[1] # args.interest_rates[2]
    /\ Len(args.exit_ev_multiples) = 2
    /\ args.exit_ev_multiples[1] # args.exit_ev_multiples[2]
    /\ Len(ret.rows) = 8
    /\ \A e \in SweepEquityRatios, r \in InterestRates, x \in ExitMultiples :
           Cardinality(SweepRowsOf(e, r, x)) = 1

-----------------------------------------------------------------------------
(* DCF valuator dcf_valuation (valuation/dcf_and_reporting.py).            *)
(* The arguments are Python floats, as the signature declares: a float     *)
(* division by zero raises ZeroDivisionError.                              *)

DcfFcfValues == {R(100), R(110)}

Waccs == {R(0), Q(1, 50), Q(1, 10)}

TerminalGrowths == {Q(1, 50)}

TerminalMethods == {"gordon", "exit_multiple", "perpetuity"}

NetDebts == {R(-50), R(0), R(300)}

SharesOutstanding == {None, Some(R(0)), Some(R(10))}

DcfTables ==
    {[columns |-> c, rows |-> r] :
        c \in {{"year", "fcf"}, {"year", "fcf", "ebitda"}},
        r \in UNION {ProjRows(n, DcfFcfValues) : n \in 1..MaxYears}}

RECURSIVE RSum(_)
RSum(xs) == IF xs = <<>> THEN Zero ELSE RAdd(Head(xs), RSum(Tail(xs)))

(* A discount factor that leaves the first projected year undiscounted.    *)
dcf_dfactor_from_zero(wacc, i) == RPow(RAdd(One, wacc), i - 1)

(* Line 127: dfactor of the i-th year, i counted from 1.                   *)
dcf_dfactor(wacc, i) == RPow(RAdd(One, wacc), i)

(* Lines 125-129: the discounted flows and their sum.                      *)
dcf_pv_cashflows(fcfs, wacc) ==
    RSum([i \in 1..Len(fcfs) |-> RDiv(fcfs[i], dcf_dfactor(wacc, i))])

(* Lines 132-143: the terminal value; the gordon quotient has a zero       *)
(* denominator when wacc = terminal_growth.                                *)
dcf_terminal_value(df, final_fcf, a) ==
    IF a.terminal_method = "gordon"
    THEN IF RSub(a.wacc, a.terminal_growth) = Zero
         THEN [raised |-> "ZeroDivisionError"]
         ELSE [raised |-> "none",
               tv |-> RDiv(RMul(final_fcf, RAdd(One, a.terminal_growth)),
                           RSub(a.wacc, a.terminal_growth))]
    ELSE IF "ebitda" \in a.df_proj.columns
         THEN [raised |-> "none", tv |-> RMul(df[Len(df)].ebitda, a.exit_multiple)]
         ELSE [raised |-> "none",
               tv |-> RMul(RDiv(final_fcf, Q(7, 10)), a.exit_multiple)]

(* The returned record when the terminal value is added undiscounted.      *)
dcf_result_tv_undiscounted(pv_cashflows, tv, tv_discount, a) ==
    LET enterprise_value == RAdd(pv_cashflows, tv)
        equity_value == RSub(enterprise_value, a.last_reported_net_debt)
    IN  [raised |-> "none",
         warnings |-> {},
         pv_cashflows |-> pv_cashflows,
         terminal_value |-> tv,
         pv_terminal_value |-> tv_discount,
         enterprise_value |-> enterprise_value,
         equity_value |-> equity_value,
         per_share |-> IF a.shares_outstanding # None /\ a.shares_outstanding[1] # Zero
                       THEN Some(RDiv(equity_value, a.shares_outstanding[1]))
                       ELSE None,
         wacc_used |-> a.wacc,
         terminal_method |-> a.terminal_method]

(* Lines 148-166: enterprise value, equity value, per-share value and the  *)
(* returned record.  The function issues no warning.                       *)
dcf_result(pv_cashflows, tv, tv_discount, a) ==
    LET enterprise_value == RAdd(pv_cashflows, tv_discount)
        equity_value == RSub(enterprise_value, a.last_reported_net_debt)
    IN  [raised |-> "none",
         warnings |-> {},
         pv_cashflows |-> pv_cashflows,
         terminal_value |-> tv,
         pv_terminal_value |-> tv_discount,
         enterprise_value |-> enterprise_value,
         equity_value |-> equity_value,
         per_share |-> IF a.shares_outstanding # None /\ a.shares_outstanding[1] # Zero
                       THEN Some(RDiv(equity_value, a.shares_outstanding[1]))
                       ELSE None,
         wacc_used |-> a.wacc,
         terminal_method |-> a.terminal_method]

(* The whole call.  With wacc = -1 the discount factors are 0: the loop    *)
(* divides numpy values (inf or nan, no exception) and line 146 divides    *)
(* Python floats, which raises.                                            *)
dcf_valuation(a) ==
    LET df == SortByYear(a.df_proj.rows)
        fcfs == [i \in 1..Len(df) |-> df[i].fcf]
        final_fcf == fcfs[Len(fcfs)]
        t == dcf_terminal_value(df, final_fcf, a)
    IN  IF t.raised # "none" THEN [raised |-> t.raised]
        ELSE IF RAdd(One, a.wacc) = Zero THEN [raised |-> "ZeroDivisionError"]
        ELSE dcf_result(dcf_pv_cashflows(fcfs, a.wacc),
                        t.tv,
                        RDiv(t.tv, RPow(RAdd(One, a.wacc), Len(fcfs))),
                        a)

InitDcf ==
    /\ fn = "dcf_valuation"
    /\ pc = "call"
    /\ locals = None
    /\ ret = None
    /\ \E t \in DcfTables, w \in Waccs, tm \in TerminalMethods, g \in TerminalGrowths,
          x \in ExitMultiples, nd \in NetDebts, sh \in SharesOutstanding :
           args = [df_proj |-> t, wacc |-> w, terminal_method |-> tm,
                   terminal_growth |-> g, exit_multiple |-> x,
                   last_reported_net_debt |-> nd, shares_outstanding |-> sh]

dcf_valuation_call ==
    /\ fn = "dcf_valuation"
    /\ pc = "call"
    /\ ret' = dcf_valuation(args)
    /\ pc' = "done"
    /\ UNCHANGED <<fn, args, locals>>

NextDcf == dcf_valuation_call

SpecDcf == InitDcf /\ [][NextDcf]_vars

DcfDone == fn = "dcf_valuation" /\ pc = "done"

DcfReturned == DcfDone /\ ret.raised = "none"

(* C4: every dcf_valuation call that returns, with either terminal method, *)
(* has enterprise_value = pv_cashflows + pv_terminal_value and             *)
(* equity_value = enterprise_value - last_reported_net_debt.               *)
C4_DcfDecomposition ==
    DcfReturned =>
        /\ ret.enterprise_value = RAdd(ret.pv_cashflows, ret.pv_terminal_value)
        /\ ret.equity_value = RSub(ret.enterprise_value, args.last_reported_net_debt)

(* A returned gordon valuation with a positive terminal value and a        *)
(* non-zero net debt, over two years.                                      *)
C4_Witness ==
    /\ DcfReturned
    /\ args.terminal_method = "gordon"
    /\ Len(args.df_proj.rows) = 2
    /\ RLt(Zero, ret.pv_terminal_value)
    /\ ret.pv_terminal_value # ret.terminal_value
    /\ args.last_reported_net_debt = R(300)

(* An explicit report of degenerate math: the call returns, and either the *)
(* terminal value is the undefined value or a warning was issued.          *)
DcfDegenerateReported ==
    /\ ret.raised = "none"
    /\ \/ ret.terminal_value = None
       \/ ret.warnings # {}

(* C5: a gordon valuation with wacc <= terminal_growth ends in an explicit *)
(* degenerate-math report: it neither raises nor returns a finite terminal *)
(* value and enterprise value as if they were valid.                       *)
C5_GordonDegenerateReported ==
    (DcfDone /\ args.terminal_method = "gordon"
             /\ RLe(args.wacc, args.terminal_growth)) => DcfDegenerateReported

(* The FCF of the i-th projected year in ascending year order, read from   *)
(* the table as the caller passed it.                                      *)
DcfFcfOfRank(i) ==
    LET rows == args.df_proj.rows
        r == CHOOSE r \in DOMAIN rows :
                 Cardinality({q \in DOMAIN rows : rows[q].year < rows[r].year}) = i - 1
    IN  rows[r].fcf

(* x rounded to two decimals, in hundredths (x >= 0).                      *)
Round2(x) == (200 * x.n + x.d) \div (2 * x.d)

(* Year-1 FCF 100, year-2 FCF 110 (rows in any order), wacc 0.10, gordon   *)
(* growth 0.02.                                                            *)
DcfExampleCall ==
    /\ Len(args.df_proj.rows) = 2
    /\ \E a, b \in 1..2 :
        /\ args.df_proj.rows[a] = [year |-> FirstYear, fcf |-> R(100),
                                   ebitda |-> EbitdaOf(FirstYear)]
        /\ args.df_proj.rows[b] = [year |-> FirstYear + 1, fcf |-> R(110),
                                   ebitda |-> EbitdaOf(FirstYear + 1)]
    /\ args.wacc = Q(1, 10)
    /\ args.terminal_method = "gordon"
    /\ args.terminal_growth = Q(1, 50)

DcfDiscountsByYearRank ==
    LET N == Len(args.df_proj.rows)
    IN  /\ ret.pv_cashflows =
               RSum([i \in 1..N |->
                        RDiv(DcfFcfOfRank(i), RPow(RAdd(One, args.wacc), i))])
        /\ RMul(ret.pv_terminal_value, RPow(RAdd(One, args.wacc), N))
               = ret.terminal_value

(* C6 as stated: the i-th projected year in ascending year order is        *)
(* discounted by (1+wacc)^i, the terminal value by (1+wacc)^N, and the     *)
(* example yields PV(flows) 181.82, TV 1402.50, PV(TV) 1159.92.            *)
C6_DiscountingWithStatedExample ==
    DcfReturned =>
        /\ DcfDiscountsByYearRank
        /\ DcfExampleCall =>
            /\ Round2(ret.pv_cashflows) = 18182
            /\ Round2(ret.terminal_value) = 140250
            /\ Round2(ret.pv_terminal_value) = 115992

(* C6 amended: the same discounting, and the example yields PV(flows)      *)
(* 181.82, TV 1402.50, PV(TV) 1159.09 (1402.50 / 1.21).                    *)
C6_DiscountingWithExample ==
    DcfReturned =>
        /\ DcfDiscountsByYearRank
        /\ DcfExampleCall =>
            /\ Round2(ret.pv_cashflows) = 18182
            /\ Round2(ret.terminal_value) = 140250
            /\ Round2(ret.pv_terminal_value) = 115909

(* The example call returned, its rows passed in descending year order.    *)
C6_Witness ==
    /\ DcfReturned
    /\ DcfExampleCall
    /\ args.df_proj.rows[1].year = FirstYear + 1
    /\ Round2(ret.pv_terminal_value) = 115909

-----------------------------------------------------------------------------
(* WACC estimator compute_wacc (valuation/dcf_and_reporting.py).           *)

(* Lines 1-6: the names the module imports.                                *)
ImportedNames ==
    {"Optional", "Tuple", "Dict", "Any", "Ticker", "pd", "np", "npf", "Path"}

WaccEquityValues == {None, Some(R(-1)), Some(R(0)), Some(R(1))}

WaccDebtValues == {None, Some(R(0)), Some(R(3))}

(* d[k] = v on a Python dict.                                              *)
DictSet(d, k, v) == [x \in (DOMAIN d) \cup {k} |-> IF x = k THEN v ELSE d[x]]

EmptyDict == <<>>

(* Lines 33-43 that forget to record the defaulted tax rate.               *)
compute_wacc_defaults_tax_unrecorded(a) ==
    LET a1 == IF a.risk_free_rate = None
              THEN [v |-> Q(7, 200), assumptions |->
                        DictSet(EmptyDict, "risk_free_rate", "estimé")]
              ELSE [v |-> a.risk_free_rate[1], assumptions |-> EmptyDict]
        a2 == IF a.market_premium = None
              THEN [v |-> Q(3, 50), assumptions |->
                        DictSet(a1.assumptions, "market_premium", "estimé")]
              ELSE [v |-> a.market_premium[1], assumptions |-> a1.assumptions]
        a3 == IF a.tax_rate = None
              THEN [v |-> Q(21, 100), assumptions |-> a2.assumptions]
              ELSE [v |-> a.tax_rate[1], assumptions |-> a2.assumptions]
    IN  [risk_free_rate |-> a1.v, market_premium |-> a2.v, tax_rate |-> a3.v,
         assumptions |-> a3.assumptions]

(* Lines 33-43: risk-free rate, market premium and tax rate, each replaced *)
(* by its default and recorded when omitted.                               *)
compute_wacc_defaults(a) ==
    LET a1 == IF a.risk_free_rate = None
              THEN [v |-> Q(7, 200), assumptions |->
                        DictSet(EmptyDict, "risk_free_rate", "estimé")]
              ELSE [v |-> a.risk_free_rate[1], assumptions |-> EmptyDict]
        a2 == IF a.market_premium = None
              THEN [v |-> Q(3, 50), assumptions |->
                        DictSet(a1.assumptions, "market_premium", "estimé")]
              ELSE [v |-> a.market_premium[1], assumptions |-> a1.assumptions]
        a3 == IF a.tax_rate = None
              THEN [v |-> Q(21, 100), assumptions |->
                        DictSet(a2.assumptions, "tax_rate", "estimé")]
              ELSE [v |-> a.tax_rate[1], assumptions |-> a2.assumptions]
    IN  [risk_free_rate |-> a1.v, market_premium |-> a2.v, tax_rate |-> a3.v,
         assumptions |-> a3.assumptions]

(* Lines 45-62: the provider's beta (None when the lookup fails or has no  *)
(* beta), the override, the default 1.0.                                   *)
compute_wacc_beta(a, assumptions) ==
    LET b1 == IF a.beta_override # None
              THEN [v |-> a.beta_override,
                    assumptions |-> DictSet(assumptions, "beta", "override")]
              ELSE [v |-> a.provider_beta, assumptions |-> assumptions]
    IN  IF b1.v = None
        THEN [beta |-> One, assumptions |-> DictSet(b1.assumptions, "beta", "estimé")]
        ELSE [beta |-> b1.v[1], assumptions |-> b1.assumptions]

(* Lines 68-73: interest / debt when both are usable, else 5%.             *)
compute_wacc_cost_of_debt(a, assumptions) ==
    IF /\ a.interest_expense # None
       /\ a.debt_value # None
       /\ a.debt_value[1] # Zero
       /\ RLt(Zero, a.debt_value[1])
    THEN [cost_of_debt |-> RDiv(a.interest_expense[1], a.debt_value[1]),
          assumptions |->
              DictSet(assumptions, "cost_of_debt", "calculé sur intérêts/dette")]
    ELSE [cost_of_debt |-> Q(1, 20),
          assumptions |-> DictSet(assumptions, "cost_of_debt", "estimé")]

(* Lines 76-84: the capital weights.                                       *)
compute_wacc_capital_structure(a, assumptions) ==
    IF a.equity_value = None /\ a.debt_value = None
    THEN [equity_weight |-> Q(2, 5), debt_weight |-> Q(3, 5),
          assumptions |->
              DictSet(assumptions, "capital_structure", "estimée (40/60)")]
    ELSE LET equity_value == IF a.equity_value = None THEN One ELSE a.equity_value[1]
             debt_value == IF a.debt_value = None THEN Zero ELSE a.debt_value[1]
             total == RMax(RAdd(equity_value, debt_value), Q(1, 1000000000))
         IN  [equity_weight |-> RDiv(equity_value, total),
              debt_weight |-> RDiv(debt_value, total),
              assumptions |-> assumptions]

(* The whole call.  Line 87 reads the name 'warnings', which the module    *)
(* never binds: evaluating it raises NameError.                            *)
compute_wacc(a) ==
    LET d == compute_wacc_defaults(a)
        b == compute_wacc_beta(a, d.assumptions)
        cost_of_equity == RAdd(d.risk_free_rate, RMul(b.beta, d.market_premium))
        c == compute_wacc_cost_of_debt(a, b.assumptions)
        w == compute_wacc_capital_structure(a, c.assumptions)
        negative == RLt(w.equity_weight, Zero) \/ RLt(w.debt_weight, Zero)
    IN  IF negative /\ "warnings" \notin ImportedNames
        THEN [raised |-> "NameError"]
        ELSE [raised |-> "none",
              warnings |-> IF negative THEN {"Poids négatif"} ELSE {},
              beta |-> b.beta,
              risk_free_rate |-> d.risk_free_rate,
              market_premium |-> d.market_premium,
              cost_of_equity |-> cost_of_equity,
              cost_of_debt |-> c.cost_of_debt,
              tax_rate |-> d.tax_rate,
              equity_weight |-> w.equity_weight,
              debt_weight |-> w.debt_weight,
              wacc |-> RAdd(RMul(cost_of_equity, w.equity_weight),
                            RMul(RMul(c.cost_of_debt, RSub(One, d.tax_rate)),
                                 w.debt_weight)),
              assumptions |-> w.assumptions]

InitWacc ==
    /\ fn = "compute_wacc"
    /\ pc = "call"
    /\ locals = None
    /\ ret = None
    /\ \E rf \in {None, Some(Q(1, 50))}, mp \in {None, Some(Q(1, 20))},
          t \in {None, Some(Q(1, 4))}, bo \in {None, Some(Q(3, 2))},
          pb \in {None, Some(Q(6, 5))}, ie \in {None, Some(Q(3, 20))},
          e \in WaccEquityValues, d \in WaccDebtValues :
           args = [equity_value |-> e, debt_value |-> d, tax_rate |-> t,
                   risk_free_rate |-> rf, market_premium |-> mp,
                   beta_override |-> bo, interest_expense |-> ie,
                   provider_beta |-> pb]

compute_wacc_call ==
    /\ fn = "compute_wacc"
    /\ pc = "call"
    /\ ret' = compute_wacc(args)
    /\ pc' = "done"
    /\ UNCHANGED <<fn, args, locals>>

NextWacc == compute_wacc_call

SpecWacc == InitWacc /\ [][NextWacc]_vars

WaccDone == fn = "compute_wacc" /\ pc = "done"

WaccReturned == WaccDone /\ ret.raised = "none"

(* C7: for every combination of supplied and omitted inputs, including     *)
(* equity_value + debt_value <= 0 and one of the two omitted, the returned *)
(* equity_weight + debt_weight equals 1.                                   *)
C7_WeightsSumToOne ==
    WaccReturned => RAdd(ret.equity_weight, ret.debt_weight) = One

(* The weights lines 76-84 compute from the arguments are negative.        *)
WaccNegativeWeights ==
    LET w == compute_wacc_capital_structure(args, EmptyDict)
    IN  RLt(w.equity_weight, Zero) \/ RLt(w.debt_weight, Zero)

(* C8: when the computed capital weights are negative, compute_wacc issues *)
(* a warning and still returns a complete WACC result; it does not end     *)
(* with an error.                                                          *)
C8_NegativeWeightsWarnOnly ==
    (WaccDone /\ WaccNegativeWeights) =>
        /\ ret.raised = "none"
        /\ ret.warnings # {}
        /\ {"wacc", "equity_weight", "debt_weight", "assumptions"} \subseteq DOMAIN ret

WaccFields ==
    {"risk_free_rate", "market_premium", "tax_rate", "beta", "cost_of_debt",
     "capital_structure"}

WaccDefaultedFields ==
    {f \in WaccFields :
        \/ f = "risk_free_rate" /\ args.risk_free_rate = None
        \/ f = "market_premium" /\ args.market_premium = None
        \/ f = "tax_rate" /\ args.tax_rate = None
        \/ f = "beta" /\ args.beta_override = None /\ args.provider_beta = None
        \/ f = "cost_of_debt"
               /\ (\/ args.interest_expense = None
                   \/ args.debt_value = None
                   \/ RLe(args.debt_value[1], Zero))
        \/ f = "capital_structure"
               /\ (args.equity_value = None \/ args.debt_value = None)}

(* C10: whenever compute_wacc replaces a value that was not supplied by a  *)
(* default (the 40/60 split and the value put in for equity or debt when   *)
(* only one of the two is supplied included), the returned assumptions     *)
(* record has an entry for that field.                                     *)
C10_DefaultsRecorded ==
    WaccReturned => \A f \in WaccDefaultedFields : f \in DOMAIN ret.assumptions

-----------------------------------------------------------------------------
(* Argument checking of dcf_valuation.                                     *)

(* C11: dcf_valuation, called with a terminal method that is neither       *)
(* "gordon" nor "exit_multiple", rejects it: the call ends with an         *)
(* argument error (not with an arithmetic error met while computing) and   *)
(* returns no valuation.                                                   *)
C11_UnknownMethodRejected ==
    (DcfDone /\ args.terminal_method \notin {"gordon", "exit_multiple"}) =>
        ret.raised \notin {"none", "ZeroDivisionError"}

-----------------------------------------------------------------------------
(* Argument checking of lbo_model.                                         *)

(* C12: lbo_model, given an initial equity contribution that is zero or    *)
(* negative, raises before the simulation runs: the yearly loop is never   *)
(* entered and the call returns no result (no MOIC, neither a number nor   *)
(* None).                                                                  *)
C12_NonPositiveEquityRejected ==
    (fn = "lbo_model" /\ RLe(args.equity_contrib, Zero)) =>
        /\ pc # "loop"
        /\ pc = "done" => ret.raised # "none"

-----------------------------------------------------------------------------
(* Ratio engine: calculate_profitability_ratios and                        *)
(* calculate_leverage_ratios (financial_analysis/financials_fmp.py).       *)
(*                                                                         *)
(* A statement table is a sequence of rows, each a function from the       *)
(* table's column names to cells.  A cell is a finite number, or one of    *)
(* the float values nan, inf, -inf, or pandas' NA.  Both functions work on *)
(* the DataFrame object they are given: locals.df is that object, args.df  *)
(* is its value when the call was made.                                    *)

NaN == [n |-> 0, d |-> 0]

Inf == [n |-> 1, d |-> 0]

NegInf == [n |-> -1, d |-> 0]

NA == <<>>

(* pandas' isna: nan and NA are missing values.                            *)
IsMissing(x) == x = NaN \/ x = NA

(* Float arithmetic of pandas columns on finite or missing operands: a     *)
(* missing operand gives nan; x / 0 is inf, -inf or nan, with no error.    *)
FSub(a, b) == IF IsMissing(a) \/ IsMissing(b) THEN NaN ELSE RSub(a, b)

FMul(a, b) == IF IsMissing(a) \/ IsMissing(b) THEN NaN ELSE RMul(a, b)

FDiv(a, b) ==
    IF IsMissing(a) \/ IsMissing(b) THEN NaN
    ELSE IF b = Zero
         THEN IF a = Zero THEN NaN ELSE IF RLt(Zero, a) THEN Inf ELSE NegInf
         ELSE RDiv(a, b)

FAbs(a) == IF IsMissing(a) THEN NaN ELSE IF RLt(a, Zero) THEN RNeg(a) ELSE a

StatementColumns ==
    {"date", "totalrevenue", "ebitda", "ebit", "netincome", "stockholdersequity",
     "totalassets", "operatingincome", "taxrateforcalcs", "investedcapital",
     "totaldebt", "interestexpense", "currentassets", "inventory",
     "currentliabilities"}

(* The columns that are the denominator of some ratio.                     *)
RatioDenominators ==
    {"totalrevenue", "stockholdersequity", "totalassets", "investedcapital",
     "ebitda", "interestexpense", "currentliabilities"}

(* A reporting period whose denominators in 'zeros' are 0.                 *)
StatementRow(date, zeros) ==
    LET full == [date |-> R(date), totalrevenue |-> R(100), ebitda |-> R(50),
                 ebit |-> R(40), netincome |-> R(20), stockholdersequity |-> R(200),
                 totalassets |-> R(500), operatingincome |-> R(40),
                 taxrateforcalcs |-> Q(1, 5), investedcapital |-> R(400),
                 totaldebt |-> R(300), interestexpense |-> R(-10),
                 currentassets |-> R(150), inventory |-> R(50),
                 currentliabilities |-> R(100)]
    IN  [c \in StatementColumns |-> IF c \in zeros THEN Zero ELSE full[c]]

(* A row with no value at all.                                             *)
EmptyStatementRow == [c \in StatementColumns |-> NaN]

(* Tables as the caller may hold them, latest period first: one period,    *)
(* two periods, and a period followed by an empty row.                     *)
StatementRowSeqs ==
    {<<StatementRow(FirstYear - 1, z)>> : z \in SUBSET RatioDenominators}
    \cup {<<StatementRow(FirstYear - 1, z), StatementRow(FirstYear - 2, {})>> :
             z \in SUBSET RatioDenominators}
    \cup {<<StatementRow(FirstYear - 1, {}), EmptyStatementRow>>}

StatementColumnSets ==
    {StatementColumns,
     StatementColumns \ {"totaldebt"},
     {"date", "totalrevenue", "ebitda", "ebit", "netincome"},
     StatementColumns \ {"totalrevenue"}}

(* The table with the given columns only.                                  *)
Restrict(rows, cols) == [k \in DOMAIN rows |-> [c \in cols |-> rows[k][c]]]

StatementTables ==
    {[columns |-> cols, rows |-> Restrict(rows, cols)] :
        cols \in StatementColumnSets, rows \in StatementRowSeqs}

(* df[name] = ...: the column is added, or overwritten, in every row.      *)
(* value gives the new cell of each row.                                   *)
SetColumn(df, name, value) ==
    [columns |-> df.columns \cup {name},
     rows |-> [k \in DOMAIN df.rows |->
                  [c \in df.columns \cup {name} |->
                      IF c = name THEN value[df.rows[k]] ELSE df.rows[k][c]]]]

RowsOf(df) == {df.rows[k] : k \in DOMAIN df.rows}

(* df.dropna(how="all", inplace=True): the rows whose every cell is        *)
(* missing are removed.                                                    *)
RECURSIVE dropna_all_rows(_, _)
dropna_all_rows(rows, cols) ==
    IF rows = <<>> THEN <<>>
    ELSE IF \E c \in cols : ~IsMissing(Head(rows)[c])
         THEN <<Head(rows)>> \o dropna_all_rows(Tail(rows), cols)
         ELSE dropna_all_rows(Tail(rows), cols)

dropna_all(df) == [df EXCEPT !.rows = dropna_all_rows(df.rows, df.columns)]

(* df.replace([inf, -inf], pd.NA, inplace=True).                           *)
replace_inf(df) ==
    [df EXCEPT !.rows = [k \in DOMAIN df.rows |->
        [c \in df.columns |->
            IF df.rows[k][c] \in {Inf, NegInf} THEN NA ELSE df.rows[k][c]]]]

(* Lines 105-107: the three margins.                                       *)
calculate_profitability_ratios_margins(df) ==
    LET d1 == SetColumn(df, "ebitda_margin",
                        [row \in RowsOf(df) |-> FDiv(row.ebitda, row.totalrevenue)])
        d2 == SetColumn(d1, "ebit_margin",
                        [row \in RowsOf(d1) |-> FDiv(row.ebit, row.totalrevenue)])
    IN  SetColumn(d2, "net_income_margin",
                  [row \in RowsOf(d2) |-> FDiv(row.netincome, row.totalrevenue)])

(* Lines 108-117: ROE, ROA and ROIC, each when its columns are present.    *)
calculate_profitability_ratios_returns(df) ==
    LET d1 == IF "stockholdersequity" \in df.columns
              THEN SetColumn(df, "roe",
                             [row \in RowsOf(df) |-> FDiv(row.netincome, row.stockholdersequity)])
              ELSE df
        d2 == IF "totalassets" \in d1.columns
              THEN SetColumn(d1, "roa",
                             [row \in RowsOf(d1) |-> FDiv(row.netincome, row.totalassets)])
              ELSE d1
    IN  IF {"operatingincome", "taxrateforcalcs", "investedcapital"} \subseteq d2.columns
        THEN LET d3 == SetColumn(d2, "nopat",
                                 [row \in RowsOf(d2) |->
                                     FMul(row.operatingincome,
                                          FSub(One, row.taxrateforcalcs))])
             IN  SetColumn(d3, "roic",
                           [row \in RowsOf(d3) |-> FDiv(row.nopat, row.investedcapital)])
        ELSE d2

(* Lines 137-146: the leverage and liquidity ratios; the interest coverage *)
(* is NA in a row whose interest expense is 0.                             *)
calculate_leverage_ratios_columns(df) ==
    LET d1 == SetColumn(df, "debt_to_equity",
                        [row \in RowsOf(df) |-> FDiv(row.totaldebt, row.stockholdersequity)])
        d2 == SetColumn(d1, "debt_to_ebitda",
                        [row \in RowsOf(d1) |-> FDiv(row.totaldebt, row.ebitda)])
        d3 == SetColumn(d2, "interest_coverage_ratio",
                        [row \in RowsOf(d2) |-> IF row.interestexpense # Zero
                                     THEN FDiv(row.ebit, FAbs(row.interestexpense))
                                     ELSE NA])
        d4 == SetColumn(d3, "current_ratio",
                        [row \in RowsOf(d3) |-> FDiv(row.currentassets, row.currentliabilities)])
    IN  SetColumn(d4, "quick_ratio",
                  [row \in RowsOf(d4) |-> FDiv(FSub(row.currentassets, row.inventory),
                                    row.currentliabilities)])

InitRatios ==
    /\ fn \in {"calculate_profitability_ratios", "calculate_leverage_ratios"}
    /\ pc = "check"
    /\ ret = None
    /\ \E t \in StatementTables :
        /\ args = [df |-> t]
        /\ locals = [df |-> t]

(* Lines 98-103: the empty rows are dropped from the caller's table, then  *)
(* the columns of the margins are required.                                *)
calculate_profitability_ratios_check ==
    /\ fn = "calculate_profitability_ratios"
    /\ pc = "check"
    /\ locals' = [df |-> dropna_all(locals.df)]
    /\ IF {"totalrevenue", "ebitda", "ebit", "netincome"} \subseteq locals.df.columns
       THEN pc' = "compute" /\ UNCHANGED ret
       ELSE pc' = "done" /\ ret' = [raised |-> "ValueError"]
    /\ UNCHANGED <<fn, args>>

(* Lines 104-118: the ratio columns are written and the table returned.    *)
calculate_profitability_ratios_compute ==
    /\ fn = "calculate_profitability_ratios"
    /\ pc = "compute"
    /\ LET df == calculate_profitability_ratios_returns(
                     calculate_profitability_ratios_margins(locals.df))
       IN  /\ locals' = [df |-> df]
           /\ ret' = [raised |-> "none", df |-> df]
    /\ pc' = "done"
    /\ UNCHANGED <<fn, args>>

(* Lines 130-136.                                                          *)
calculate_leverage_ratios_check ==
    /\ fn = "calculate_leverage_ratios"
    /\ pc = "check"
    /\ IF {"totaldebt", "stockholdersequity", "ebitda", "ebit", "interestexpense",
           "currentassets", "inventory", "currentliabilities"} \subseteq locals.df.columns
       THEN pc' = "compute" /\ UNCHANGED ret
       ELSE pc' = "done" /\ ret' = [raised |-> "ValueError"]
    /\ UNCHANGED <<fn, args, locals>>

(* Lines 137-146.                                                          *)
calculate_leverage_ratios_compute ==
    /\ fn = "calculate_leverage_ratios"
    /\ pc = "compute"
    /\ locals' = [df |-> calculate_leverage_ratios_columns(locals.df)]
    /\ pc' = "clean"
    /\ UNCHANGED <<fn, args, ret>>

(* Lines 148-150: infinities become NA in the whole table, empty rows are  *)
(* dropped, the table is returned.                                         *)
calculate_leverage_ratios_clean ==
    /\ fn = "calculate_leverage_ratios"
    /\ pc = "clean"
    /\ LET df == dropna_all(replace_inf(locals.df))
       IN  /\ locals' = [df |-> df]
           /\ ret' = [raised |-> "none", df |-> df]
    /\ pc' = "done"
    /\ UNCHANGED <<fn, args>>

NextRatios ==
    \/ calculate_profitability_ratios_check
    \/ calculate_profitability_ratios_compute
    \/ calculate_leverage_ratios_check
    \/ calculate_leverage_ratios_compute
    \/ calculate_leverage_ratios_clean

SpecRatios == InitRatios /\ [][NextRatios]_vars

RatiosDone ==
    fn \in {"calculate_profitability_ratios", "calculate_leverage_ratios"} /\ pc = "done"

(* Each ratio column with the column that is its denominator.              *)
RatioDenominatorOf ==
    [ebitda_margin |-> "totalrevenue", ebit_margin |-> "totalrevenue",
     net_income_margin |-> "totalrevenue", roe |-> "stockholdersequity",
     roa |-> "totalassets", roic |-> "investedcapital",
     debt_to_equity |-> "stockholdersequity", debt_to_ebitda |-> "ebitda",
     interest_coverage_ratio |-> "interestexpense",
     current_ratio |-> "currentliabilities", quick_ratio |-> "currentliabilities"]

(* C13: in the table returned by calculate_profitability_ratios or         *)
(* calculate_leverage_ratios, every ratio of a row whose denominator is 0  *)
(* is the undefined marker (nan or NA): not an infinity, not a number; and *)
(* a zero denominator makes neither function raise.                        *)
C13_ZeroDenominatorUndefined ==
    (RatiosDone /\ ret.raised = "none") =>
        \A k \in DOMAIN ret.df.rows : \A r \in DOMAIN RatioDenominatorOf :
            (r \in ret.df.columns /\ ret.df.rows[k][RatioDenominatorOf[r]] = Zero)
                => IsMissing(ret.df.rows[k][r])

(* C14: when calculate_profitability_ratios or calculate_leverage_ratios   *)
(* has returned or raised, the caller's table has the rows, the columns    *)
(* and the values it had when the call was made.                           *)
C14_CallerTableUnchanged ==
    RatiosDone => locals.df = args.df

-----------------------------------------------------------------------------
(* Projector: project_financials and project_operating_fcf                 *)
(* (financial_analysis/financials_fmp.py).  The date of a historical row   *)
(* is its fiscal year.                                                     *)

HistRevenues == {R(0), R(80), R(100)}

RevenueGrowths == {Q(-1, 4), R(0), Q(1, 4)}

(* Historical rows of the n latest fiscal years, in any row order.         *)
HistRows(n) ==
    {[k \in 1..n |-> [date |-> (FirstYear - n - 1) + o[k],
                      totalrevenue |-> rev[k],
                      ebitda_margin |-> Q(1, 2), ebit_margin |-> Q(2, 5),
                      capex |-> R(7)]] :
        o \in {p \in [1..n -> 1..n] : \A a, b \in 1..n : a # b => p[a] # p[b]},
        rev \in [1..n -> HistRevenues]}

HistTables ==
    {[columns |-> c, rows |-> r] :
        c \in {{"date", "totalrevenue", "ebitda_margin", "ebit_margin"},
               {"date", "totalrevenue", "ebitda_margin", "ebit_margin", "capex"}},
        r \in HistRows(1) \cup HistRows(2)}

(* df.sort_values("date", ascending=False).                                *)
RECURSIVE InsertByDateDesc(_, _)
InsertByDateDesc(row, sorted) ==
    IF sorted = <<>> \/ row.date > Head(sorted).date
    THEN <<row>> \o sorted
    ELSE <<Head(sorted)>> \o InsertByDateDesc(row, Tail(sorted))

RECURSIVE SortByDateDesc(_)
SortByDateDesc(rows) ==
    IF rows = <<>> THEN <<>>
    ELSE InsertByDateDesc(rows[Len(rows)],
                          SortByDateDesc(SubSeq(rows, 1, Len(rows) - 1)))

(* The first row of the table as it was passed, whatever its date.         *)
project_last_row_unsorted(df) == df.rows[1]

(* Lines 163, 198: the row of the latest date.                             *)
project_last_row(df) == SortByDateDesc(df.rows)[1]

(* Lines 164, 199.                                                         *)
project_second_last_row(df) == SortByDateDesc(df.rows)[2]

(* Lines 171-190: the row project_financials appends in iteration i.       *)
project_financials_row(df, l, revenue_growth) ==
    LET revenue == RMul(l.revenue, RAdd(One, revenue_growth))
        ebitda == RMul(revenue, l.ebitda_margin)
        ebit == RMul(revenue, l.ebit_margin)
        capex == IF "capex" \in df.columns THEN df.rows[1].capex
                 ELSE RMul(revenue, Q(1, 20))
        nopat == RMul(ebit, RSub(One, Q(21, 100)))
        working_capital_change == RMul(Q(1, 10), RSub(revenue, l.revenue_prev))
    IN  [year |-> l.last_year + l.i, revenue |-> revenue, ebitda |-> ebitda,
         ebit |-> ebit, capex |-> capex,
         fcf |-> RSub(RSub(nopat, capex), working_capital_change)]

(* Lines 206-226: the row project_operating_fcf appends in iteration i.    *)
project_operating_fcf_row(df, l, revenue_growth) ==
    LET revenue == RMul(l.revenue, RAdd(One, revenue_growth))
        ebitda == RMul(revenue, l.ebitda_margin)
        ebit == RMul(revenue, l.ebit_margin)
        capex == RMul(revenue, Q(1, 20))
        nopat == RMul(ebit, RSub(One, Q(21, 100)))
        working_capital_change == RMul(Q(1, 10), RSub(revenue, l.revenue_prev))
    IN  [year |-> l.last_year + l.i, revenue |-> revenue, ebitda |-> ebitda,
         ebit |-> ebit, capex |-> capex, nopat |-> nopat,
         working_capital_change |-> working_capital_change,
         fcf_operating |-> RSub(RSub(nopat, capex), working_capital_change)]

InitProject ==
    /\ fn \in {"project_financials", "project_operating_fcf"}
    /\ pc = "start"
    /\ locals = None
    /\ ret = None
    /\ \E t \in HistTables, n \in 1..MaxYears, g \in RevenueGrowths :
           args = [df |-> t, years |-> n, revenue_growth |-> g]

(* Lines 163-169, 198-204: the two latest rows are read; iloc[1] fails on  *)
(* a table of one row.                                                     *)
project_start ==
    /\ fn \in {"project_financials", "project_operating_fcf"}
    /\ pc = "start"
    /\ IF Len(args.df.rows) < 2
       THEN /\ ret' = [raised |-> "IndexError"]
            /\ pc' = "done"
            /\ UNCHANGED locals
       ELSE /\ locals' = [i |-> 1,
                          last_year |-> project_last_row(args.df).date,
                          revenue |-> project_last_row(args.df).totalrevenue,
                          ebitda_margin |-> project_last_row(args.df).ebitda_margin,
                          ebit_margin |-> project_last_row(args.df).ebit_margin,
                          revenue_prev |-> project_second_last_row(args.df).totalrevenue,
                          projections |-> <<>>]
            /\ pc' = "loop"
            /\ UNCHANGED ret
    /\ UNCHANGED <<fn, args>>

(* Lines 170-190: revenue_prev keeps the revenue of the second latest      *)
(* historical row in every iteration.                                      *)
project_financials_iter ==
    /\ fn = "project_financials"
    /\ pc = "loop"
    /\ locals.i <= args.years
    /\ LET row == project_financials_row(args.df, locals, args.revenue_growth)
       IN  locals' = [locals EXCEPT !.i = locals.i + 1,
                                    !.revenue = row.revenue,
                                    !.projections = Append(locals.projections, row)]
    /\ UNCHANGED <<fn, args, pc, ret>>

(* Lines 205-227: revenue_prev follows the projected revenue.              *)
project_operating_fcf_iter ==
    /\ fn = "project_operating_fcf"
    /\ pc = "loop"
    /\ locals.i <= args.years
    /\ LET row == project_operating_fcf_row(args.df, locals, args.revenue_growth)
       IN  locals' = [locals EXCEPT !.i = locals.i + 1,
                                    !.revenue = row.revenue,
                                    !.revenue_prev = row.revenue,
                                    !.projections = Append(locals.projections, row)]
    /\ UNCHANGED <<fn, args, pc, ret>>

(* Lines 191, 228.                                                         *)
project_return ==
    /\ fn \in {"project_financials", "project_operating_fcf"}
    /\ pc = "loop"
    /\ locals.i > args.years
    /\ ret' = [raised |-> "none", rows |-> locals.projections]
    /\ pc' = "done"
    /\ UNCHANGED <<fn, args, locals>>

NextProject ==
    \/ project_start
    \/ project_financials_iter
    \/ project_operating_fcf_iter
    \/ project_return

SpecProject == InitProject /\ [][NextProject]_vars

ProjectReturned ==
    /\ fn \in {"project_financials", "project_operating_fcf"}
    /\ pc = "done"
    /\ ret.raised = "none"

(* The historical row of the latest date, read from the caller's table.    *)
HistLatest ==
    CHOOSE r \in {args.df.rows[k] : k \in DOMAIN args.df.rows} :
        \A k \in DOMAIN args.df.rows : args.df.rows[k].date <= r.date

(* N rows for the years last_year+1 .. last_year+N, with revenue_i =       *)
(* last historical revenue * (1+g)^i.                                      *)
ProjectCompounds ==
    /\ Len(ret.rows) = args.years
    /\ \A i \in 1..args.years :
        /\ ret.rows[i].year = HistLatest.date + i
        /\ ret.rows[i].revenue =
               RMul(HistLatest.totalrevenue, RPow(RAdd(One, args.revenue_growth), i))

ProjectStrictlyIncreasing ==
    \A i \in 1..(args.years - 1) : RLt(ret.rows[i].revenue, ret.rows[i + 1].revenue)

ProjectConstant ==
    \A i \in 1..(args.years - 1) : ret.rows[i].revenue = ret.rows[i + 1].revenue

(* C15 as stated: for a historical table of two rows or more, N >= 1 and   *)
(* growth g, both projectors return the N compounding rows; for g > 0 the  *)
(* projected revenue is strictly increasing, for g = 0 it is constant.     *)
C15_ProjectionCompoundsAndGrows ==
    ProjectReturned =>
        /\ ProjectCompounds
        /\ RLt(Zero, args.revenue_growth) => ProjectStrictlyIncreasing
        /\ args.revenue_growth = Zero => ProjectConstant

(* C15 amended: the same, the strict increase for g > 0 being that of a    *)
(* positive last historical revenue.                                       *)
C15_ProjectionCompounds ==
    ProjectReturned =>
        /\ ProjectCompounds
        /\ (RLt(Zero, args.revenue_growth) /\ RLt(Zero, HistLatest.totalrevenue))
               => ProjectStrictlyIncreasing
        /\ args.revenue_growth = Zero => ProjectConstant

(* A returned projection of two years or more at g > 0 from a positive     *)
(* revenue, the latest historical row not being the first of the table.    *)
C15_Witness ==
    /\ ProjectReturned
    /\ args.years >= 2
    /\ RLt(Zero, args.revenue_growth)
    /\ RLt(Zero, HistLatest.totalrevenue)
    /\ args.df.rows[1] # HistLatest
    /\ RLt(ret.rows[1].revenue, ret.rows[2].revenue)

-----------------------------------------------------------------------------
(* Failure of one combination in run_lbo_scenarios.                        *)

(* C17: once run_lbo_scenarios has entered its loop over the combinations, *)
(* an error raised by the evaluation of one of them does not end the       *)
(* sweep: the call returns, with one row for every combination (the        *)
(* failing one reported in its row).                                       *)
C17_SweepIsolatesFailures ==
    (fn = "run_lbo_scenarios" /\ pc = "done" /\ locals # None) =>
        /\ ret.raised = "none"
        /\ Len(ret.rows) = product_len(args.equity_ratios, args.interest_rates,
                                       args.exit_ev_multiples)

-----------------------------------------------------------------------------
(* Return metrics: lbo_model (valuation/lbo.py) and calculate_lbo_return   *)
(* (financial_analysis/financials_fmp.py).  The IRR is what the solver     *)
(* finds on the 'cashflows' vector; the model keeps the vector.            *)

SimEbitdas == {R(30), R(150)}

SimDebtBalances == {R(0), R(400), R(1200)}

(* Simulation tables as simulate_lbo_cashflows returns them: one row per   *)
(* year with its EBITDA and closing debt balance.                          *)
SimulationTables ==
    UNION {[1..n -> [ebitda : SimEbitdas, debt_balance : SimDebtBalances]] :
              n \in 1..MaxYears}

IsFinite(x) == x \notin {NaN, Inf, NegInf, NA}

FAdd(a, b) == IF IsMissing(a) \/ IsMissing(b) THEN NaN ELSE RAdd(a, b)

(* npf.irr(cashflows), numpy_financial's solver: it finds the roots of the *)
(* polynomial of the vector with numpy.roots, which raises LinAlgError on  *)
(* a vector holding nan or inf; a finite vector whose flows all have the   *)
(* sign of the first one has no solution and gives nan; any other finite   *)
(* vector gives what the solver finds on it, irr_of that vector.           *)
npf_irr(cashflows) ==
    IF \E k \in DOMAIN cashflows : ~IsFinite(cashflows[k])
    THEN [raised |-> "LinAlgError"]
    ELSE IF IF RLt(Zero, cashflows[1])
            THEN \A k \in DOMAIN cashflows : RLt(Zero, cashflows[k])
            ELSE \A k \in DOMAIN cashflows : RLt(cashflows[k], Zero)
         THEN [raised |-> "none", irr |-> NaN]
         ELSE [raised |-> "none", irr |-> [irr_of |-> cashflows]]

(* Line 331: [-initial_equity] + [0] * (len - 1) + [final_equity].         *)
calculate_lbo_return_cashflows(n, initial_equity, final_equity) ==
    [k \in 1..(n + 1) |->
        IF k = 1 THEN RNeg(initial_equity)
        ELSE IF k = n + 1 THEN final_equity ELSE Zero]

(* Lines 333-341: the solver is called unguarded; an exception of it       *)
(* leaves the function.                                                    *)
calculate_lbo_return_result(a, exit_value, final_debt, final_equity, cashflows, solved) ==
    IF solved.raised # "none" THEN [raised |-> solved.raised]
    ELSE [raised |-> "none",
          multiple |-> FDiv(final_equity, a.initial_equity),
          irr |-> solved.irr,
          cashflows |-> cashflows,
          exit_value |-> exit_value,
          final_equity |-> final_equity,
          final_debt |-> final_debt]

(* Lines 323-341.  The operands of line 334 are numpy floats: a zero       *)
(* initial equity gives inf, -inf or nan, not an exception.                *)
calculate_lbo_return(a) ==
    LET n == Len(a.df_simulation)
        final_ebitda == a.df_simulation[n].ebitda
        exit_value == FMul(final_ebitda, a.exit_multiple)
        final_debt == a.df_simulation[n].debt_balance
        final_equity == FSub(exit_value, final_debt)
        cashflows == calculate_lbo_return_cashflows(n, a.initial_equity, final_equity)
    IN  calculate_lbo_return_result(a, exit_value, final_debt, final_equity,
                                    cashflows, npf_irr(cashflows))

InitCalculateLboReturn ==
    /\ fn = "calculate_lbo_return"
    /\ pc = "call"
    /\ locals = None
    /\ ret = None
    /\ \E t \in SimulationTables, e \in EquityContribs, x \in ExitMultiples :
           args = [df_simulation |-> t, initial_equity |-> e, exit_multiple |-> x]

calculate_lbo_return_call ==
    /\ fn = "calculate_lbo_return"
    /\ pc = "call"
    /\ ret' = calculate_lbo_return(args)
    /\ pc' = "done"
    /\ UNCHANGED <<fn, args, locals>>

InitLboReturn == InitLboModel \/ InitCalculateLboReturn

NextLboReturn == NextLboModel \/ calculate_lbo_return_call

SpecLboReturn == InitLboReturn /\ [][NextLboReturn]_vars

(* A returned LBO result whose initial equity contribution is positive.    *)
LboReturnedPositiveEquity ==
    /\ pc = "done"
    /\ ret.raised = "none"
    /\ \/ fn = "lbo_model" /\ RLt(Zero, args.equity_contrib)
       \/ fn = "calculate_lbo_return" /\ RLt(Zero, args.initial_equity)

LboInitialEquity ==
    IF fn = "lbo_model" THEN args.equity_contrib ELSE args.initial_equity

LboMoic == IF fn = "lbo_model" THEN ret.MOIC[1] ELSE ret.multiple

LboFinalEquityExceeds == RLt(LboInitialEquity, ret.final_equity)

(* IRR > 0, taken as: the undiscounted sum of the cash-flow vector is      *)
(* positive.                                                               *)
LboIrrPositive == RLt(Zero, RSum(ret.cashflows))

(* C18 as stated: for a positive initial equity contribution, final equity *)
(* > initial equity if and only if MOIC > 1, and if and only if IRR > 0.   *)
C18_MoicIrrEquivalent ==
    LboReturnedPositiveEquity =>
        /\ LboFinalEquityExceeds <=> RLt(One, LboMoic)
        /\ LboFinalEquityExceeds <=> LboIrrPositive

(* C18 amended: final equity > initial equity if and only if MOIC > 1, and *)
(* then IRR > 0; IRR > 0 gives final equity > initial equity back for      *)
(* calculate_lbo_return, whose vector holds the two amounts only, not for  *)
(* lbo_model, whose vector also counts the yearly equity cash flows.       *)
C18_MoicIrrConsistent ==
    LboReturnedPositiveEquity =>
        /\ LboFinalEquityExceeds <=> RLt(One, LboMoic)
        /\ LboFinalEquityExceeds => LboIrrPositive
        /\ (fn = "calculate_lbo_return" /\ LboIrrPositive) => LboFinalEquityExceeds

(* A leveraged two-year lbo_model result with final equity above the       *)
(* contribution, MOIC > 1 and a positive cash-flow sum.                    *)
C18_Witness ==
    /\ LboReturnedPositiveEquity
    /\ fn = "lbo_model"
    /\ RLt(Zero, args.debt_contrib)
    /\ Len(ret.cashflows) = 3
    /\ LboFinalEquityExceeds
    /\ RLt(One, LboMoic)
    /\ LboIrrPositive

-----------------------------------------------------------------------------
(* Sensitivity grid sensitivity_analysis (valuation/dcf_and_reporting.py). *)

SensWaccs == {Q(1, 50), Q(1, 10)}

SensGrowths == {Q(1, 100), Q(1, 50)}

SensTerminalTypes == {"gordon", "exit"}

(* The projections of the grid: FCF 100 in the first projected year and    *)
(* 110 in the later ones, rows in ascending or in descending year order.   *)
SensTables ==
    {t \in DcfTables :
        /\ \A k \in DOMAIN t.rows :
               t.rows[k].fcf = IF t.rows[k].year = FirstYear THEN R(100) ELSE R(110)
        /\ \/ \A k \in 1..(Len(t.rows) - 1) : t.rows[k].year < t.rows[k + 1].year
           \/ \A k \in 1..(Len(t.rows) - 1) : t.rows[k].year > t.rows[k + 1].year}

(* Sequences of length 0..n over S.                                        *)
SeqsFromEmpty(S, n) == {<<>>} \cup SeqsUpTo(S, n)

(* Line 187: f"{p}", the text of a float; two floats have the same text    *)
(* exactly when they are the same number.                                  *)
format_param(p) == <<"str", p.n, p.d>>

(* The valuation of a cell when the parameter is always passed as the      *)
(* terminal growth.                                                        *)
sensitivity_analysis_call_growth_only(df_proj, w, p, terminal_type) ==
    dcf_valuation([df_proj |-> df_proj, wacc |-> w,
                   terminal_method |-> IF terminal_type = "gordon" THEN "gordon"
                                       ELSE "exit_multiple",
                   terminal_growth |-> p, exit_multiple |-> R(10),
                   last_reported_net_debt |-> Zero, shares_outstanding |-> None])

(* Lines 183-186: the dcf_valuation call of one cell, the other arguments  *)
(* at their defaults.                                                      *)
sensitivity_analysis_call(df_proj, w, p, terminal_type) ==
    IF terminal_type = "gordon"
    THEN dcf_valuation([df_proj |-> df_proj, wacc |-> w,
                        terminal_method |-> "gordon",
                        terminal_growth |-> p, exit_multiple |-> R(10),
                        last_reported_net_debt |-> Zero, shares_outstanding |-> None])
    ELSE dcf_valuation([df_proj |-> df_proj, wacc |-> w,
                        terminal_method |-> "exit_multiple",
                        terminal_growth |-> Q(1, 50), exit_multiple |-> p,
                        last_reported_net_debt |-> Zero, shares_outstanding |-> None])

(* Lines 181-188: the dict of one discount rate, filled from the j-th      *)
(* parameter on; a key written twice keeps the later value.                *)
RECURSIVE sensitivity_analysis_row(_, _, _, _)
sensitivity_analysis_row(a, w, j, row) ==
    IF j > Len(a.terminal_param_range) THEN [raised |-> "none", cells |-> row]
    ELSE LET p == a.terminal_param_range[j]
             res == sensitivity_analysis_call(a.df_proj, w, p, a.terminal_type)
         IN  IF res.raised # "none" THEN [raised |-> res.raised]
             ELSE sensitivity_analysis_row(
                      a, w, j + 1,
                      DictSet(row, format_param(p), res.enterprise_value))

InitSens ==
    /\ fn = "sensitivity_analysis"
    /\ pc = "loop"
    /\ locals = [i |-> 1, results |-> <<>>]
    /\ ret = None
    /\ \E t \in SensTables, ws \in SeqsFromEmpty(SensWaccs, MaxListLen),
          ty \in SensTerminalTypes :
        \E ps \in SeqsFromEmpty(IF ty = "gordon" THEN SensGrowths ELSE ExitMultiples,
                                MaxListLen) :
           args = [df_proj |-> t, wacc_range |-> ws, terminal_param_range |-> ps,
                   terminal_type |-> ty]

(* Lines 180-189: one discount rate; an error of dcf_valuation leaves the  *)
(* function.                                                               *)
sensitivity_analysis_wacc ==
    /\ fn = "sensitivity_analysis"
    /\ pc = "loop"
    /\ locals.i <= Len(args.wacc_range)
    /\ LET w == args.wacc_range[locals.i]
           row == sensitivity_analysis_row(args, w, 1, EmptyDict)
       IN  IF row.raised # "none"
           THEN /\ ret' = [raised |-> row.raised]
                /\ pc' = "done"
                /\ UNCHANGED locals
           ELSE /\ locals' = [i |-> locals.i + 1,
                              results |-> Append(locals.results,
                                                 [wacc |-> w, cells |-> row.cells])]
                /\ UNCHANGED <<pc, ret>>
    /\ UNCHANGED <<fn, args>>

(* Lines 190-191: the frame of the dicts, indexed by "wacc"; an empty list *)
(* of dicts has no such column.                                            *)
sensitivity_analysis_return ==
    /\ fn = "sensitivity_analysis"
    /\ pc = "loop"
    /\ locals.i > Len(args.wacc_range)
    /\ ret' = IF locals.results = <<>> THEN [raised |-> "KeyError"]
              ELSE [raised |-> "none",
                    index |-> [k \in DOMAIN locals.results |-> locals.results[k].wacc],
                    columns |-> UNION {DOMAIN locals.results[k].cells :
                                          k \in DOMAIN locals.results},
                    rows |-> [k \in DOMAIN locals.results |-> locals.results[k].cells]]
    /\ pc' = "done"
    /\ UNCHANGED <<fn, args, locals>>

NextSens ==
    \/ sensitivity_analysis_wacc
    \/ sensitivity_analysis_return

SpecSens == InitSens /\ [][NextSens]_vars

SensReturned == fn = "sensitivity_analysis" /\ pc = "done" /\ ret.raised = "none"

(* What dcf_valuation returns for the projection with discount rate w and  *)
(* terminal parameter p under the selected method.                         *)
SensCellValuation(w, p) ==
    dcf_valuation([df_proj |-> args.df_proj, wacc |-> w,
                   terminal_method |-> IF args.terminal_type = "gordon" THEN "gordon"
                                       ELSE "exit_multiple",
                   terminal_growth |-> IF args.terminal_type = "gordon" THEN p
                                       ELSE Q(1, 50),
                   exit_multiple |-> IF args.terminal_type = "gordon" THEN R(10) ELSE p,
                   last_reported_net_debt |-> Zero, shares_outstanding |-> None])

-----------------------------------------------------------------------------
(* Whole calls of the projector and of the sensitivity grid, as the        *)
(* pipeline makes them.                                                    *)

(* Lines 163-169: the locals of project_financials before its loop.        *)
project_financials_locals(df) ==
    [i |-> 1,
     last_year |-> project_last_row(df).date,
     revenue |-> project_last_row(df).totalrevenue,
     ebitda_margin |-> project_last_row(df).ebitda_margin,
     ebit_margin |-> project_last_row(df).ebit_margin,
     revenue_prev |-> project_second_last_row(df).totalrevenue,
     projections |-> <<>>]

(* Lines 170-191: the loop from iteration l.i on.                          *)
RECURSIVE project_financials_loop(_, _)
project_financials_loop(a, l) ==
    IF l.i > a.years THEN l.projections
    ELSE LET row == project_financials_row(a.df, l, a.revenue_growth)
         IN  project_financials_loop(
                 a, [l EXCEPT !.i = l.i + 1,
                              !.revenue = row.revenue,
                              !.projections = Append(l.projections, row)])

project_financials(a) ==
    IF Len(a.df.rows) < 2 THEN [raised |-> "IndexError"]
    ELSE [raised |-> "none",
          rows |-> project_financials_loop(a, project_financials_locals(a.df))]

(* Lines 180-189 from the i-th discount rate on; row is the dict of the    *)
(* i-th rate (line 189 appends it).                                        *)
RECURSIVE sensitivity_analysis_loop(_, _, _)
RECURSIVE sensitivity_analysis_append(_, _, _, _)
sensitivity_analysis_append(a, i, results, row) ==
    IF row.raised # "none" THEN [raised |-> row.raised]
    ELSE sensitivity_analysis_loop(
             a, i + 1, Append(results, [wacc |-> a.wacc_range[i], cells |-> row.cells]))

sensitivity_analysis_loop(a, i, results) ==
    IF i > Len(a.wacc_range) THEN [raised |-> "none", results |-> results]
    ELSE sensitivity_analysis_append(
             a, i, results,
             sensitivity_analysis_row(a, a.wacc_range[i], 1, EmptyDict))

(* Lines 190-191: the frame of the collected dicts, indexed by 'wacc'.     *)
sensitivity_analysis_frame(l) ==
    IF l.raised # "none" THEN [raised |-> l.raised]
    ELSE IF l.results = <<>> THEN [raised |-> "KeyError"]
    ELSE [raised |-> "none",
          index |-> [k \in DOMAIN l.results |-> l.results[k].wacc],
          columns |-> UNION {DOMAIN l.results[k].cells : k \in DOMAIN l.results},
          rows |-> [k \in DOMAIN l.results |-> l.results[k].cells]]

sensitivity_analysis(a) == sensitivity_analysis_frame(sensitivity_analysis_loop(a, 1, <<>>))

-----------------------------------------------------------------------------
(* Pipeline pipeline_value_report (valuation/dcf_and_reporting.py).        *)
(*                                                                         *)
(* What the data provider delivers is an input of the call: the fetched    *)
(* statement table (its columns, its periods with their margins, its share *)
(* counts and the net debt its debt and cash columns amount to), the key   *)
(* statistics and the quoted price.  locals.calls lists the functions the  *)
(* pipeline has invoked so far.                                            *)

PipelineMarketCaps == {None, Some(R(0)), Some(R(410))}

PipelineNetDebts == {R(-50), R(0), R(700)}

PipelineShareCounts == {None, Some(NaN), Some(R(10))}

(* The fetched periods, latest first: fiscal years FirstYear-1 and, when   *)
(* there are two, FirstYear-2.                                             *)
PipelineHistRows ==
    {r \in HistRows(1) \cup HistRows(2) :
        /\ r[1].date = FirstYear - 1
        /\ r[1].totalrevenue = R(100)
        /\ Len(r) = 2 => r[2].totalrevenue = R(80)}

FetchedTables ==
    {[columns |-> c, rows |-> r, basicaverageshares |-> b,
      dilutedaverageshares |-> d, net_debt |-> nd] :
        c \in {StatementColumns, StatementColumns \ {"totaldebt"},
               StatementColumns \ {"netincome"}},
        r \in PipelineHistRows,
        b \in PipelineShareCounts,
        d \in {None, Some(R(10))},
        nd \in PipelineNetDebts}

Providers ==
    {[key_stats |-> [raises |-> kr, marketcap |-> mc],
      price |-> [raises |-> pr, value |-> pv]] :
        kr \in BOOLEAN, mc \in PipelineMarketCaps,
        pr \in BOOLEAN, pv \in {None, Some(R(41))}}

(* Lines 322-330: depreciation, change of working capital, NOPAT and FCF   *)
(* added to the projection.                                                *)
pipeline_fcf(rows) ==
    [k \in DOMAIN rows |->
        LET depreciation == RSub(rows[k].ebitda, rows[k].ebit)
            delta_nwc == IF k = 1 THEN Zero
                         ELSE RMul(RSub(rows[k].revenue, rows[k - 1].revenue), Q(1, 10))
            nopat == RMul(rows[k].ebit, RSub(One, Q(21, 100)))
        IN  [year |-> rows[k].year, revenue |-> rows[k].revenue,
             ebitda |-> rows[k].ebitda, ebit |-> rows[k].ebit,
             capex |-> rows[k].capex, depreciation |-> depreciation,
             delta_nwc |-> delta_nwc, nopat |-> nopat,
             fcf |-> RSub(RSub(RAdd(nopat, depreciation), rows[k].capex), delta_nwc)]]

(* Lines 463-502: the provider's figure, else price * shares, else None.   *)
calculate_market_cap(df_fin, provider) ==
    IF ~provider.key_stats.raises /\ provider.key_stats.marketcap # None
    THEN provider.key_stats.marketcap
    ELSE LET shares == IF df_fin.basicaverageshares # None
                       THEN df_fin.basicaverageshares
                       ELSE df_fin.dilutedaverageshares
             price == IF provider.price.raises THEN None ELSE provider.price.value
         IN  IF shares = None \/ IsMissing(shares[1]) THEN None
             ELSE IF price = None THEN None
             ELSE Some(RMul(price[1], shares[1]))

(* The check of line 341 without its comparison with 0.                    *)
pipeline_market_cap_invalid_none_only(market_cap) == market_cap = None

(* Line 341.                                                               *)
pipeline_market_cap_invalid(market_cap) ==
    market_cap = None \/ RLe(market_cap[1], Zero)

(* Lines 357-361.                                                          *)
pipeline_shares_outstanding(df_fin) ==
    IF df_fin.basicaverageshares # None THEN df_fin.basicaverageshares
    ELSE df_fin.dilutedaverageshares

InitPipeline ==
    /\ fn = "pipeline_value_report"
    /\ pc = "ratios"
    /\ ret = None
    /\ locals = [calls |-> <<>>]
    /\ \E t \in FetchedTables, p \in Providers, n \in {1, 2},
          out \in {None, Some("report.xlsx")} :
        /\ (t.basicaverageshares = Some(NaN))
               => (p.key_stats.raises \/ p.key_stats.marketcap \in {None, Some(R(0))})
        /\ args = [years |-> n, revenue_growth |-> Q(1, 20), output_excel |-> out,
                   df_fin |-> t, provider |-> p]

PipelineRaise(exception, calls) ==
    /\ ret' = [raised |-> exception]
    /\ pc' = "done"
    /\ locals' = [locals EXCEPT !.calls = locals.calls \o calls]

(* Lines 300-302: the statements are fetched and both ratio functions run  *)
(* on them; each raises when one of its columns is missing.                *)
pipeline_ratios ==
    /\ fn = "pipeline_value_report"
    /\ pc = "ratios"
    /\ IF ~({"totalrevenue", "ebitda", "ebit", "netincome"} \subseteq args.df_fin.columns)
       THEN PipelineRaise("ValueError",
                          <<"get_financials", "calculate_profitability_ratios">>)
       ELSE IF ~({"totaldebt", "stockholdersequity", "ebitda", "ebit",
                  "interestexpense", "currentassets", "inventory",
                  "currentliabilities"} \subseteq args.df_fin.columns)
       THEN PipelineRaise("ValueError",
                          <<"get_financials", "calculate_profitability_ratios",
                            "calculate_leverage_ratios">>)
       ELSE /\ locals' = [locals EXCEPT !.calls =
                             <<"get_financials", "calculate_profitability_ratios",
                               "calculate_leverage_ratios">>]
            /\ pc' = "project"
            /\ UNCHANGED ret
    /\ UNCHANGED <<fn, args>>

(* Lines 317-330.                                                          *)
pipeline_project ==
    /\ fn = "pipeline_value_report"
    /\ pc = "project"
    /\ LET proj == project_financials(
                       [df |-> [columns |-> {"date", "totalrevenue", "ebitda_margin",
                                             "ebit_margin"},
                                rows |-> args.df_fin.rows],
                        years |-> args.years, revenue_growth |-> args.revenue_growth])
       IN  IF proj.raised # "none"
           THEN PipelineRaise(proj.raised, <<"project_financials">>)
           ELSE /\ locals' = [calls |-> Append(locals.calls, "project_financials"),
                              df_proj |-> [columns |-> {"year", "revenue", "ebitda",
                                                        "ebit", "capex", "fcf",
                                                        "depreciation", "delta_nwc",
                                                        "nopat"},
                                           rows |-> pipeline_fcf(proj.rows)]]
                /\ pc' = "net_debt"
                /\ UNCHANGED ret
    /\ UNCHANGED <<fn, args>>

(* Line 333.                                                               *)
pipeline_net_debt ==
    /\ fn = "pipeline_value_report"
    /\ pc = "net_debt"
    /\ locals' = [calls |-> Append(locals.calls, "calculate_net_debt"),
                  df_proj |-> locals.df_proj,
                  net_debt |-> args.df_fin.net_debt]
    /\ pc' = "market_cap"
    /\ UNCHANGED <<fn, args, ret>>

(* Line 337.                                                               *)
pipeline_market_cap ==
    /\ fn = "pipeline_value_report"
    /\ pc = "market_cap"
    /\ locals' = [calls |-> Append(locals.calls, "calculate_market_cap"),
                  df_proj |-> locals.df_proj,
                  net_debt |-> locals.net_debt,
                  market_cap |-> calculate_market_cap(args.df_fin, args.provider)]
    /\ pc' = "check"
    /\ UNCHANGED <<fn, args, ret>>

(* Lines 341-346: no market capitalization is an error; a negative net     *)
(* debt is set to 0.                                                       *)
pipeline_check ==
    /\ fn = "pipeline_value_report"
    /\ pc = "check"
    /\ IF pipeline_market_cap_invalid(locals.market_cap)
       THEN PipelineRaise("ValueError", <<>>)
       ELSE /\ locals' = [locals EXCEPT !.net_debt =
                             IF RLt(locals.net_debt, Zero) THEN Zero
                             ELSE locals.net_debt]
            /\ pc' = "wacc"
            /\ UNCHANGED ret
    /\ UNCHANGED <<fn, args>>


(* Line 351: the capital structure is the market capitalization and the    *)
(* net debt; every other parameter is left to its default.                 *)
pipeline_wacc ==
    /\ fn = "pipeline_value_report"
    /\ pc = "wacc"
    /\ LET wacc_info == compute_wacc(
                            [equity_value |-> locals.market_cap,
                             debt_value |-> Some(locals.net_debt),
                             tax_rate |-> None, risk_free_rate |-> None,
                             market_premium |-> None, beta_override |-> None,
                             interest_expense |-> None, provider_beta |-> None])
       IN  IF wacc_info.raised # "none"
           THEN PipelineRaise(wacc_info.raised, <<"compute_wacc">>)
           ELSE /\ locals' = [calls |-> Append(locals.calls, "compute_wacc"),
                              df_proj |-> locals.df_proj,
                              net_debt |-> locals.net_debt,
                              market_cap |-> locals.market_cap,
                              wacc_info |-> wacc_info]
                /\ pc' = "dcf"
                /\ UNCHANGED ret
    /\ UNCHANGED <<fn, args>>

(* Lines 357-371.                                                          *)
pipeline_dcf ==
    /\ fn = "pipeline_value_report"
    /\ pc = "dcf"
    /\ LET dcf_res == dcf_valuation(
                          [df_proj |-> locals.df_proj,
                           wacc |-> locals.wacc_info.wacc,
                           terminal_method |-> "gordon",
                           terminal_growth |-> Q(1, 50),
                           exit_multiple |-> R(10),
                           last_reported_net_debt |-> locals.net_debt,
                           shares_outstanding |-> pipeline_shares_outstanding(args.df_fin)])
       IN  IF dcf_res.raised # "none"
           THEN PipelineRaise(dcf_res.raised, <<"dcf_valuation">>)
           ELSE /\ locals' = [calls |-> Append(locals.calls, "dcf_valuation"),
                              df_proj |-> locals.df_proj,
                              net_debt |-> locals.net_debt,
                              market_cap |-> locals.market_cap,
                              wacc_info |-> locals.wacc_info,
                              dcf_res |-> dcf_res]
                /\ pc' = "sensitivity"
                /\ UNCHANGED ret
    /\ UNCHANGED <<fn, args>>

(* Line 376: the discount rates of the grid.                               *)
pipeline_wacc_range(w) == <<RSub(w, Q(1, 100)), w, RAdd(w, Q(1, 100))>>

(* Lines 376-378.                                                          *)
pipeline_sensitivity ==
    /\ fn = "pipeline_value_report"
    /\ pc = "sensitivity"
    /\ \E sens \in {sensitivity_analysis(
                          [df_proj |-> locals.df_proj,
                           wacc_range |-> pipeline_wacc_range(locals.wacc_info.wacc),
                           terminal_param_range |-> <<Q(1, 100), Q(1, 50), Q(3, 100)>>,
                           terminal_type |-> "gordon"])} :
           IF sens.raised # "none"
           THEN PipelineRaise(sens.raised, <<"sensitivity_analysis">>)
           ELSE /\ locals' = [calls |-> Append(locals.calls, "sensitivity_analysis"),
                              df_proj |-> locals.df_proj,
                              net_debt |-> locals.net_debt,
                              market_cap |-> locals.market_cap,
                              wacc_info |-> locals.wacc_info,
                              dcf_res |-> locals.dcf_res,
                              sens |-> sens]
                /\ pc' = "comparables"
                /\ UNCHANGED ret
    /\ UNCHANGED <<fn, args>>

(* Line 383.                                                               *)
pipeline_comparables ==
    /\ fn = "pipeline_value_report"
    /\ pc = "comparables"
    /\ locals' = [locals EXCEPT !.calls = Append(locals.calls, "get_comparables_multiples")]
    /\ pc' = "result"
    /\ UNCHANGED <<fn, args, ret>>

(* Lines 388-405: the result dict; the workbook is written when a path is  *)
(* given.                                                                  *)
pipeline_return ==
    /\ fn = "pipeline_value_report"
    /\ pc = "result"
    /\ ret' = [raised |-> "none",
               df_proj |-> locals.df_proj,
               dcf |-> locals.dcf_res,
               wacc_info |-> locals.wacc_info,
               sensitivity |-> locals.sens,
               net_debt |-> locals.net_debt,
               market_cap |-> locals.market_cap[1],
               export_path |-> args.output_excel]
    /\ locals' = [locals EXCEPT !.calls =
                     IF args.output_excel # None
                     THEN Append(locals.calls, "export_report_excel")
                     ELSE locals.calls]
    /\ pc' = "done"
    /\ UNCHANGED <<fn, args>>

NextPipeline ==
    \/ pipeline_ratios
    \/ pipeline_project
    \/ pipeline_net_debt
    \/ pipeline_market_cap
    \/ pipeline_check
    \/ pipeline_wacc
    \/ pipeline_dcf
    \/ pipeline_sensitivity
    \/ pipeline_comparables
    \/ pipeline_return

SpecPipeline == InitPipeline /\ [][NextPipeline]_vars

Called(name) == \E k \in DOMAIN locals.calls : locals.calls[k] = name

(* The market capitalization has been looked up and none was found: the    *)
(* provider gives no figure, or 0, and no price * shares replaces it.      *)
PipelineNoMarketCap ==
    /\ fn = "pipeline_value_report"
    /\ Called("calculate_market_cap")
    /\ \/ locals.market_cap = None
       \/ RLe(locals.market_cap[1], Zero)

(* C16: when pipeline_value_report cannot determine a positive market      *)
(* capitalization, the run stops with an error before any weighted cost of *)
(* capital is computed: it ends raising ValueError, and neither            *)
(* compute_wacc, dcf_valuation, sensitivity_analysis nor the export is     *)
(* ever called, and no capital structure takes the place of the missing   *)
(* one (the run holds no wacc_info).                                       *)
C16_FailsFastWithoutMarketCap ==
    PipelineNoMarketCap =>
        /\ pc \in {"check", "done"}
        /\ pc = "done" => ret.raised = "ValueError"
        /\ ~Called("compute_wacc")
        /\ ~Called("dcf_valuation")
        /\ ~Called("sensitivity_analysis")
        /\ ~Called("export_report_excel")
        /\ "wacc_info" \notin DOMAIN locals

C16_Witness ==
    /\ PipelineNoMarketCap
    /\ pc = "done"
    /\ ret.raised = "ValueError"
    /\ locals.market_cap = Some(R(0))

-----------------------------------------------------------------------------
(* The combinations of run_lbo_scenarios (valuation/lbo.py) and the cells  *)
(* of sensitivity_analysis (valuation/dcf_and_reporting.py) evaluated in   *)
(* any order and interleaved.                                              *)
(*                                                                         *)
(* locals.df_proj is the caller's projection table, the one object every   *)
(* evaluation receives.  An evaluation has two steps: the call, which      *)
(* takes what lbo_model or dcf_valuation keeps of the table (their         *)
(* df_proj.copy()), and the completion, which computes the result from     *)
(* that copy and stores it under the position of its combination;         *)
(* locals.completed lists the positions in the order of their completion.  *)

AnyOrderSweepTables ==
    {t \in SweepTables : {"fcf", "ebitda"} \subseteq t.columns}

AnyOrderSweepArgs ==
    {[df_proj |-> t, purchase_price |-> p, exit_ev_multiples |-> ms,
      equity_ratios |-> es, interest_rates |-> rs] :
        t \in AnyOrderSweepTables, p \in PurchasePrices,
        ms \in {<<R(8)>>, <<R(10)>>},
        es \in {<<Q(3, 10), Q(2, 5)>>, <<Q(2, 5)>>},
        rs \in {<<R(0), Q(2, 25)>>, <<Q(2, 25)>>}}

AnyOrderSensArgs ==
    {[df_proj |-> t, wacc_range |-> ws, terminal_param_range |-> ps,
      terminal_type |-> "gordon"] :
        t \in SensTables,
        ws \in {<<Q(1, 10), Q(1, 20)>>, <<Q(1, 20)>>},
        ps \in {<<Q(1, 100), Q(1, 50)>>, <<Q(1, 50)>>}}

(* The caller's table after a call, were line 26 of lbo.py to sort the     *)
(* table it is given.                                                      *)
lbo_model_caller_table_sorted_in_place(df_proj) ==
    [df_proj EXCEPT !.rows = SortByYear(df_proj.rows)]

(* lbo.py line 26: lbo_model sorts and fills a copy; the caller's table is *)
(* as it was.                                                              *)
lbo_model_caller_table(df_proj) == df_proj

(* dcf_and_reporting.py line 120: dcf_valuation sorts a copy.              *)
dcf_valuation_caller_table(df_proj) == df_proj

(* The wacc and the terminal parameter of the k-th cell, row by row.       *)
sensitivity_at(k, W, P) ==
    <<W[((k - 1) \div Len(P)) + 1], P[((k - 1) % Len(P)) + 1]>>

(* Sequential evaluation, lbo.py lines 126-161 from the k-th combination   *)
(* on, df being the caller's table as the calls so far have left it.       *)
RECURSIVE run_lbo_scenarios_sequential(_, _, _, _, _)
run_lbo_scenarios_sequential(a, df, l, k, scenarios) ==
    IF k > product_len(a.equity_ratios, a.interest_rates, a.exit_ev_multiples)
    THEN scenarios
    ELSE LET c == product_at(k, a.equity_ratios, a.interest_rates, a.exit_ev_multiples)
             lbo_res == run_lbo_scenarios_call([a EXCEPT !.df_proj = df],
                                               c[1], c[2], c[3])
             after == lbo_model_caller_table(df)
         IN  run_lbo_scenarios_sequential(
                 a, after, l, k + 1,
                 Append(scenarios,
                        run_lbo_scenarios_row([a EXCEPT !.df_proj = after], l,
                                              c[1], c[2], c[3], lbo_res)))

(* Sequential evaluation, dcf_and_reporting.py lines 180-189 from the k-th *)
(* cell on.                                                                *)
RECURSIVE sensitivity_analysis_sequential(_, _, _, _)
sensitivity_analysis_sequential(a, df, k, cells) ==
    IF k > Len(a.wacc_range) * Len(a.terminal_param_range) THEN cells
    ELSE LET c == sensitivity_at(k, a.wacc_range, a.terminal_param_range)
             res == sensitivity_analysis_call(df, c[1], c[2], a.terminal_type)
         IN  sensitivity_analysis_sequential(
                 a, dcf_valuation_caller_table(df), k + 1,
                 Append(cells, [wacc |-> c[1], param |-> format_param(c[2]),
                                enterprise_value |-> res.enterprise_value]))

InitAnyOrder ==
    /\ pc = "start"
    /\ ret = None
    /\ locals = None
    /\ \/ fn = "run_lbo_scenarios" /\ args \in AnyOrderSweepArgs
       \/ fn = "sensitivity_analysis" /\ args \in AnyOrderSensArgs

(* lbo.py lines 121-124 and dcf_and_reporting.py line 179: what is read    *)
(* before the first combination.                                           *)
any_order_start ==
    /\ pc = "start"
    /\ locals = None
    /\ IF fn = "run_lbo_scenarios"
       THEN locals' = [df_proj |-> args.df_proj,
                       pending |-> 1..product_len(args.equity_ratios,
                                                  args.interest_rates,
                                                  args.exit_ev_multiples),
                       running |-> << >>,
                       results |-> << >>,
                       completed |-> << >>,
                       ebitda_initial |-> args.df_proj.rows[1].ebitda,
                       ebitda_final |-> args.df_proj.rows[Len(args.df_proj.rows)].ebitda]
       ELSE locals' = [df_proj |-> args.df_proj,
                       pending |-> 1..(Len(args.wacc_range)
                                         * Len(args.terminal_param_range)),
                       running |-> << >>,
                       results |-> << >>,
                       completed |-> << >>]
    /\ pc' = "evaluate"
    /\ UNCHANGED <<fn, args, ret>>

(* lbo.py lines 132-140 and line 26: the call of the k-th combination; the *)
(* exit year is read from the caller's table and lbo_model takes its copy. *)
any_order_lbo_call(k) ==
    /\ fn = "run_lbo_scenarios"
    /\ pc = "evaluate"
    /\ k \in locals.pending
    /\ locals' = [locals EXCEPT
                    !.pending = locals.pending \ {k},
                    !.running = DictSet(locals.running, k, locals.df_proj),
                    !.df_proj = lbo_model_caller_table(locals.df_proj)]
    /\ UNCHANGED <<fn, args, pc, ret>>

(* lbo.py lines 27-109 and 142-161: the simulation on the copy and the row *)
(* of the k-th combination, its exit EBITDA read from the caller's table.  *)
any_order_lbo_row(k) ==
    /\ fn = "run_lbo_scenarios"
    /\ pc = "evaluate"
    /\ k \in DOMAIN locals.running
    /\ LET c == product_at(k, args.equity_ratios, args.interest_rates,
                           args.exit_ev_multiples)
           lbo_res == run_lbo_scenarios_call([args EXCEPT !.df_proj = locals.running[k]],
                                             c[1], c[2], c[3])
       IN  locals' = [locals EXCEPT
                        !.running = [j \in DOMAIN locals.running \ {k} |->
                                        locals.running[j]],
                        !.completed = Append(locals.completed, k),
                        !.results = DictSet(locals.results, k,
                                            run_lbo_scenarios_row(
                                                [args EXCEPT !.df_proj = locals.df_proj],
                                                locals, c[1], c[2], c[3], lbo_res))]
    /\ UNCHANGED <<fn, args, pc, ret>>

(* dcf_and_reporting.py lines 183-186 and 120: the call of the k-th cell.  *)
any_order_dcf_call(k) ==
    /\ fn = "sensitivity_analysis"
    /\ pc = "evaluate"
    /\ k \in locals.pending
    /\ locals' = [locals EXCEPT
                    !.pending = locals.pending \ {k},
                    !.running = DictSet(locals.running, k, locals.df_proj),
                    !.df_proj = dcf_valuation_caller_table(locals.df_proj)]
    /\ UNCHANGED <<fn, args, pc, ret>>

(* dcf_and_reporting.py lines 121-166 and 187: the valuation on the copy   *)
(* and the cell it fills.                                                  *)
any_order_dcf_cell(k) ==
    /\ fn = "sensitivity_analysis"
    /\ pc = "evaluate"
    /\ k \in DOMAIN locals.running
    /\ LET c == sensitivity_at(k, args.wacc_range, args.terminal_param_range)
           res == sensitivity_analysis_call(locals.running[k], c[1], c[2],
                                            args.terminal_type)
       IN  locals' = [locals EXCEPT
                        !.running = [j \in DOMAIN locals.running \ {k} |->
                                        locals.running[j]],
                        !.completed = Append(locals.completed, k),
                        !.results = DictSet(locals.results, k,
                                            [wacc |-> c[1], param |-> format_param(c[2]),
                                             enterprise_value |-> res.enterprise_value])]
    /\ UNCHANGED <<fn, args, pc, ret>>

(* lbo.py line 163 and dcf_and_reporting.py lines 190-191: every           *)
(* combination has its result; they are returned in combination order.     *)
any_order_return ==
    /\ pc = "evaluate"
    /\ locals.pending = {}
    /\ DOMAIN locals.running = {}
    /\ ret' = [raised |-> "none",
               rows |-> [k \in 1..Cardinality(DOMAIN locals.results) |->
                            locals.results[k]]]
    /\ pc' = "done"
    /\ UNCHANGED <<fn, args, locals>>

(* The positions of the combinations of the call.                          *)
AnyOrderPositions ==
    IF fn = "run_lbo_scenarios"
    THEN 1..product_len(args.equity_ratios, args.interest_rates, args.exit_ev_multiples)
    ELSE 1..(Len(args.wacc_range) * Len(args.terminal_param_range))

NextAnyOrder ==
    \/ any_order_start
    \/ \E k \in AnyOrderPositions : any_order_lbo_call(k)
    \/ \E k \in AnyOrderPositions : any_order_lbo_row(k)
    \/ \E k \in AnyOrderPositions : any_order_dcf_call(k)
    \/ \E k \in AnyOrderPositions : any_order_dcf_cell(k)
    \/ any_order_return

SpecAnyOrder == InitAnyOrder /\ [][NextAnyOrder]_vars

AnyOrderDone == pc = "done" /\ locals # None /\ "pending" \in DOMAIN locals

(* What sequential evaluation of the call returns.                         *)
SequentialRows ==
    IF fn = "run_lbo_scenarios"
    THEN run_lbo_scenarios_sequential(
             args, args.df_proj,
             [ebitda_initial |-> args.df_proj.rows[1].ebitda,
              ebitda_final |-> args.df_proj.rows[Len(args.df_proj.rows)].ebitda],
             1, <<>>)
    ELSE sensitivity_analysis_sequential(args, args.df_proj, 1, <<>>)

-----------------------------------------------------------------------------
(* The IRR of the three LBO return computations: lbo_model                 *)
(* (valuation/lbo.py), calculate_lbo_return and lbo_scenario_analysis      *)
(* (financial_analysis/financials_fmp.py).  A statement figure the         *)
(* provider did not deliver is nan in the tables; an EBITDA of nan makes   *)
(* the exit value, the final equity and the last cash flow nan.            *)

IrrEbitdas == {NaN, R(30), R(150)}

IrrSimulationTables ==
    UNION {[1..n -> [ebitda : IrrEbitdas, debt_balance : {R(0), R(400)}]] :
              n \in 1..MaxYears}

(* round(x, 2): to the nearest hundredth, a tie to the even one; nan and   *)
(* inf stay.                                                               *)
round2(x) ==
    IF ~IsFinite(x) THEN x
    ELSE LET y == RMul(x, R(100))
             q == y.n \div y.d
             r == y.n - q * y.d
         IN  IF 2 * r < y.d THEN Q(q, 100)
             ELSE IF 2 * r > y.d THEN Q(q + 1, 100)
             ELSE IF q % 2 = 0 THEN Q(q, 100) ELSE Q(q + 1, 100)

(* lbo.py lines 96-99: a solver that raises gives the IRR None.            *)
lbo_model_irr(solved) == IF solved.raised # "none" THEN None ELSE Some(solved.irr)

(* lbo.py lines 87-92 on the yearly flows to equity of the simulated       *)
(* table.                                                                  *)
lbo_model_irr_cashflows(equity_contrib, net_to_equity, final_equity) ==
    [k \in 1..(Len(net_to_equity) + 1) |->
        IF k = 1 THEN RNeg(equity_contrib)
        ELSE IF k = Len(net_to_equity) + 1
             THEN FAdd(net_to_equity[k - 1], final_equity)
             ELSE net_to_equity[k - 1]]

(* financials_fmp.py lines 361-365: the balance after each of n years.     *)
RECURSIVE lbo_scenario_analysis_balances(_, _, _)
lbo_scenario_analysis_balances(n, debt_balance, debt_repayment_rate) ==
    IF n = 0 THEN <<>>
    ELSE LET repayment == RMul(debt_balance, debt_repayment_rate)
             balance == RMax(RSub(debt_balance, repayment), Zero)
         IN  <<balance>> \o
             lbo_scenario_analysis_balances(n - 1, balance, debt_repayment_rate)

(* financials_fmp.py lines 372-377: the row of one exit multiple.          *)
lbo_scenario_analysis_row(multiple_exit, equity_final, moic, irr) ==
    [Exit_Multiple |-> multiple_exit,
     Equity_Final |-> round2(equity_final),
     MOIC |-> round2(moic),
     IRR |-> IF irr = NaN THEN NaN ELSE [round2_of_pct |-> irr]]

InitIrr ==
    /\ ret = None
    /\ \/ /\ fn = "lbo_model"
          /\ pc = "metrics"
          /\ \E e \in {R(0), R(300)},
                flows \in SeqsUpTo({R(0), R(80)}, MaxYears),
                ev \in {NaN, R(100), R(1200)},
                fd \in {R(0), R(400)} :
               /\ args = [equity_contrib |-> e]
               /\ locals = [net_to_equity |-> flows, exit_ev |-> ev, final_debt |-> fd,
                            final_equity |-> FSub(ev, fd),
                            final_cash |-> flows[Len(flows)]]
       \/ /\ fn = "calculate_lbo_return"
          /\ pc = "call"
          /\ locals = None
          /\ \E t \in IrrSimulationTables, e \in {R(0), R(300)} :
               args = [df_simulation |-> t, initial_equity |-> e, exit_multiple |-> R(8)]
       \/ /\ fn = "lbo_scenario_analysis"
          /\ pc = "schedule"
          /\ locals = None
          /\ \E t \in IrrSimulationTables, c \in {R(0), Q(3, 10)},
                ms \in {<<R(8)>>, <<R(8), R(10)>>, <<>>} :
               args = [df_fcf |-> t, purchase_price |-> R(1000),
                       equity_contribution |-> c, debt_repayment_rate |-> Q(1, 5),
                       exit_multiples |-> ms]

(* lbo.py lines 87-109.                                                    *)
lbo_model_metrics ==
    /\ fn = "lbo_model"
    /\ pc = "metrics"
    /\ \E cashflows \in {lbo_model_irr_cashflows(args.equity_contrib,
                                                 locals.net_to_equity,
                                                 locals.final_equity)} :
        /\ ret' = [raised |-> "none",
                   exit_ev |-> locals.exit_ev,
                   final_debt |-> locals.final_debt,
                   final_equity |-> locals.final_equity,
                   final_cash |-> locals.final_cash,
                   MOIC |-> IF args.equity_contrib # Zero
                            THEN Some(FDiv(locals.final_equity, args.equity_contrib))
                            ELSE None,
                   IRR |-> lbo_model_irr(npf_irr(cashflows))]
        /\ locals' = [net_to_equity |-> locals.net_to_equity,
                      exit_ev |-> locals.exit_ev,
                      final_debt |-> locals.final_debt,
                      final_equity |-> locals.final_equity,
                      final_cash |-> locals.final_cash,
                      cashflows |-> cashflows]
    /\ pc' = "done"
    /\ UNCHANGED <<fn, args>>

(* financials_fmp.py lines 355-365: the opening amounts and the function's *)
(* own repayment schedule, written over the 'debt_balance' column of its   *)
(* copy.                                                                   *)
lbo_scenario_analysis_schedule ==
    /\ fn = "lbo_scenario_analysis"
    /\ pc = "schedule"
    /\ \E equity_initial \in {RMul(args.purchase_price, args.equity_contribution)} :
         \E balances \in {lbo_scenario_analysis_balances(
                              Len(args.df_fcf),
                              RSub(args.purchase_price, equity_initial),
                              args.debt_repayment_rate)} :
           locals' = [equity_initial |-> equity_initial,
                      debt_initial |-> RSub(args.purchase_price, equity_initial),
                      df_sim |-> [k \in DOMAIN args.df_fcf |->
                                     [args.df_fcf[k] EXCEPT !.debt_balance = balances[k]]],
                      k |-> 1,
                      results |-> <<>>]
    /\ pc' = "scenarios"
    /\ UNCHANGED <<fn, args, ret>>

(* financials_fmp.py lines 367-377: one exit multiple; the solver is       *)
(* called unguarded.                                                       *)
lbo_scenario_analysis_scenario ==
    /\ fn = "lbo_scenario_analysis"
    /\ pc = "scenarios"
    /\ locals.k <= Len(args.exit_multiples)
    /\ \E n \in {Len(locals.df_sim)} :
       \E equity_final \in {FSub(FMul(locals.df_sim[n].ebitda,
                                      args.exit_multiples[locals.k]),
                                 locals.df_sim[n].debt_balance)} :
       \E solved \in {npf_irr(calculate_lbo_return_cashflows(
                                  n, locals.equity_initial, equity_final))} :
          IF solved.raised # "none"
          THEN /\ ret' = [raised |-> solved.raised]
               /\ pc' = "done"
               /\ UNCHANGED locals
          ELSE /\ locals' = [locals EXCEPT
                               !.k = locals.k + 1,
                               !.results = Append(
                                   locals.results,
                                   lbo_scenario_analysis_row(
                                       args.exit_multiples[locals.k], equity_final,
                                       FDiv(equity_final, locals.equity_initial),
                                       solved.irr))]
               /\ UNCHANGED <<pc, ret>>
    /\ UNCHANGED <<fn, args>>

(* financials_fmp.py line 378.                                             *)
lbo_scenario_analysis_return ==
    /\ fn = "lbo_scenario_analysis"
    /\ pc = "scenarios"
    /\ locals.k > Len(args.exit_multiples)
    /\ ret' = [raised |-> "none", rows |-> locals.results]
    /\ pc' = "done"
    /\ UNCHANGED <<fn, args, locals>>

NextIrr ==
    \/ lbo_model_metrics
    \/ calculate_lbo_return_call
    \/ lbo_scenario_analysis_schedule
    \/ lbo_scenario_analysis_scenario
    \/ lbo_scenario_analysis_return

SpecIrr == InitIrr /\ [][NextIrr]_vars

(* The call has ended and the solver failed on a cash-flow vector of it:   *)
(* the exit EBITDA, and with it the last cash flow, is nan.                *)
IrrSolverFailed ==
    /\ pc = "done"
    /\ \/ fn = "lbo_model" /\ locals.final_equity = NaN
       \/ fn = "calculate_lbo_return"
              /\ args.df_simulation[Len(args.df_simulation)].ebitda = NaN
       \/ fn = "lbo_scenario_analysis"
              /\ args.exit_multiples # <<>>
              /\ args.df_fcf[Len(args.df_fcf)].ebitda = NaN

(* C21: every LBO return computation reports a failed IRR as an undefined  *)
(* IRR instead of crashing.  When the solver fails on the cash-flow        *)
(* vector, lbo_model, calculate_lbo_return and lbo_scenario_analysis       *)
(* still return (no exception leaves the call).                            *)
C21_IrrFailureReported == IrrSolverFailed => ret.raised = "none"

-----------------------------------------------------------------------------
(* The yearly step of lbo_model and its carry from year to year.           *)

(* The schedule as it stands: the table being filled while the loop runs,  *)
(* the returned table 'df_lbo' once lbo_model has returned.                *)
LboSchedule ==
    IF pc = "done" /\ ret.raised = "none" THEN ret.df_lbo ELSE locals.df

(* A year follows the full-sweep step.                                     *)
LboYearFollowsStep(row, interest_rate) ==
    LET interest == RMul(row.debt_begin, interest_rate)
        debt_repayment == RMin(RMax(RSub(row.fcf, interest), Zero), row.debt_begin)
    IN  /\ row.interest = interest
        /\ row.debt_repayment = debt_repayment
        /\ row.debt_end = RSub(row.debt_begin, debt_repayment)
        /\ row.cash = RMax(RSub(RSub(row.fcf, interest), debt_repayment), Zero)

(* C22: each year of lbo_model follows the full-sweep step (interest =     *)
(* debt_begin * rate, debt_repayment = min(max(fcf - interest, 0),         *)
(* debt_begin), debt_end = debt_begin - debt_repayment, equity cash =      *)
(* max(fcf - interest - debt_repayment, 0)); the first year opens with     *)
(* debt_contrib, and every simulated year after it opens with the closing  *)
(* debt and the closing equity of the year before.                         *)
C22_YearStepAndCarry ==
    (fn = "lbo_model" /\ pc \in {"loop", "done"} /\ locals # None
        /\ (pc = "done" => ret.raised = "none")) =>
        \A k \in LboSimulatedYears :
            /\ LboYearFollowsStep(LboSchedule[k], args.interest_rate)
            /\ k = 1 => LboSchedule[k].debt_begin = args.debt_contrib
            /\ k > 1 => /\ LboSchedule[k].debt_begin = LboSchedule[k - 1].debt_end
                        /\ LboSchedule[k].equity_begin = LboSchedule[k - 1].equity_end

-----------------------------------------------------------------------------
(* C23: in every row returned by run_lbo_scenarios the reported final      *)
(* equity is the reported exit enterprise value minus the reported final   *)
(* debt: Final_Equity = Exit_EV - Final_Debt.                              *)
C23_RowEquityIsExitEvMinusDebt ==
    SweepReturned =>
        \A k \in DOMAIN ret.rows :
            ret.rows[k].Final_Equity = RSub(ret.rows[k].Exit_EV, ret.rows[k].Final_Debt)

-----------------------------------------------------------------------------
(* The working-capital delta of the projected years.                       *)

(* The delta charged against the free cash flow of a projected row:        *)
(* project_operating_fcf reports it, project_financials subtracts it from  *)
(* NOPAT - capex.                                                          *)
ProjectWorkingCapitalChange(row) ==
    IF fn = "project_operating_fcf" THEN row.working_capital_change
    ELSE RSub(RSub(RMul(row.ebit, RSub(One, Q(21, 100))), row.capex), row.fcf)

(* Revenue of projected year i, year 0 being the last historical year.     *)
ProjectRevenue(i) == IF i = 0 THEN HistLatest.totalrevenue ELSE ret.rows[i].revenue

(* C24: in every projected year i of project_financials and of             *)
(* project_operating_fcf, the working-capital delta charged against free   *)
(* cash flow is 10% of revenue_i - revenue_(i-1), revenue_0 being the last *)
(* historical revenue.                                                     *)
C24_WorkingCapitalDelta ==
    ProjectReturned =>
        \A i \in 1..Len(ret.rows) :
            ProjectWorkingCapitalChange(ret.rows[i]) =
                RMul(Q(1, 10), RSub(ProjectRevenue(i), ProjectRevenue(i - 1)))

-----------------------------------------------------------------------------
(* Net debt: calculate_net_debt and compute_net_debt                       *)
(* (valuation/dcf_and_reporting.py).  The statement table is as            *)
(* get_financials returns it, latest period first; a cell the provider did *)
(* not fill is nan.                                                        *)

NetDebtColumnSets ==
    {{}, {"netdebt"},
     {"netdebt", "totaldebt", "cashandcashequivalents"},
     {"totaldebt", "currentdebt", "longtermdebt", "cashandcashequivalents"},
     {"currentdebt", "longtermdebt", "cashandcashequivalents", "cashfinancial"}}

(* The figure of a column in the k-th period of the table.                 *)
NetDebtFigure(col, k) ==
    LET latest == CASE col = "netdebt" -> 500
                    [] col = "totaldebt" -> 700
                    [] col = "currentdebt" -> 100
                    [] col = "longtermdebt" -> 300
                    [] col = "cashandcashequivalents" -> 200
                    [] OTHER -> 50
    IN  IF k = 1 THEN R(latest) ELSE R(2 * latest + 10 * k)

NetDebtTables ==
    UNION {{[columns |-> cols,
             rows |-> [k \in 1..n |->
                          [c \in cols |-> IF filled[k][c] THEN NetDebtFigure(c, k)
                                          ELSE NaN]]] :
               filled \in [1..n -> [cols -> BOOLEAN]]} :
              cols \in NetDebtColumnSets, n \in {1, 2}}

(* The sum of the cells of the k-th row that are present and not missing,  *)
(* over a list of candidate columns.                                       *)
RECURSIVE SumAvailable(_, _, _)
SumAvailable(df_fin, k, candidates) ==
    IF candidates = <<>> THEN Zero
    ELSE LET col == Head(candidates)
             rest == SumAvailable(df_fin, k, Tail(candidates))
         IN  IF col \in df_fin.columns /\ ~IsMissing(df_fin.rows[k][col])
             THEN RAdd(df_fin.rows[k][col], rest)
             ELSE rest

DebtCandidates ==
    <<"totaldebt", "currentdebtandcapitalleaseobligation",
      "longtermdebtandcapitalleaseobligation", "currentdebt", "longtermdebt">>

CashCandidates ==
    <<"cashandcashequivalents", "cashcashequivalentsandshortterminvestments",
      "cashequivalents", "cashfinancial">>

(* Lines 441-460: every cell is read with iloc[-1], the last row of the    *)
(* table.                                                                  *)
compute_net_debt(df_fin) ==
    LET last == Len(df_fin.rows)
        total_debt ==
            IF "totaldebt" \in df_fin.columns /\ ~IsMissing(df_fin.rows[last].totaldebt)
            THEN df_fin.rows[last].totaldebt
            ELSE SumAvailable(df_fin, last, <<"currentdebt", "longtermdebt">>)
    IN  RSub(total_debt, SumAvailable(df_fin, last, CashCandidates))

(* Lines 419-439: the sums over the first row.                             *)
calculate_net_debt_sums(df_fin) ==
    RSub(SumAvailable(df_fin, 1, DebtCandidates), SumAvailable(df_fin, 1, CashCandidates))

InitNetDebt ==
    /\ fn = "calculate_net_debt"
    /\ pc = "reported"
    /\ locals = None
    /\ ret = None
    /\ \E t \in NetDebtTables : args = [df_fin |-> t]

(* Lines 412-415: the reported figure of the first row, when there is one. *)
calculate_net_debt_reported ==
    /\ fn = "calculate_net_debt"
    /\ pc = "reported"
    /\ IF "netdebt" \in args.df_fin.columns /\ ~IsMissing(args.df_fin.rows[1].netdebt)
       THEN /\ ret' = [raised |-> "none", value |-> args.df_fin.rows[1].netdebt]
            /\ pc' = "done"
       ELSE /\ pc' = "compute"
            /\ UNCHANGED ret
    /\ UNCHANGED <<fn, args, locals>>

(* Lines 416-439: compute_net_debt's result is returned unless it is       *)
(* missing, and the sums of lines 419-439 otherwise.                       *)
calculate_net_debt_computed ==
    /\ fn = "calculate_net_debt"
    /\ pc = "compute"
    /\ \E res \in {compute_net_debt(args.df_fin)} :
        /\ locals' = [res |-> res]
        /\ ret' = [raised |-> "none",
                   value |-> IF ~IsMissing(res) THEN res
                             ELSE calculate_net_debt_sums(args.df_fin)]
    /\ pc' = "done"
    /\ UNCHANGED <<fn, args>>

NextNetDebt ==
    \/ calculate_net_debt_reported
    \/ calculate_net_debt_computed

SpecNetDebt == InitNetDebt /\ [][NextNetDebt]_vars

NetDebtReturned == fn = "calculate_net_debt" /\ pc = "done" /\ ret.raised = "none"

(* C25: calculate_net_debt returns the reported net-debt field of the most *)
(* recent period when that field is present and not missing; otherwise it  *)
(* returns the sum of the available debt-like fields minus the sum of the  *)
(* available cash-like fields of that same most recent period.             *)
C25_NetDebtFallbackChain ==
    NetDebtReturned =>
        ret.value =
            IF "netdebt" \in args.df_fin.columns /\ ~IsMissing(args.df_fin.rows[1].netdebt)
            THEN args.df_fin.rows[1].netdebt
            ELSE calculate_net_debt_sums(args.df_fin)

-----------------------------------------------------------------------------
(* The exit-multiple terminal value of dcf_valuation.                      *)

(* The keys of the dict dcf_valuation returns (lines 157-166).             *)
DcfResultKeys ==
    {"pv_cashflows", "terminal_value", "pv_terminal_value", "enterprise_value",
     "equity_value", "per_share", "wacc_used", "terminal_method"}

(* The result marks its terminal value as based on an estimate: by a       *)
(* warning or by a key beyond the valuation figures.                       *)
DcfResultFlagsEstimate ==
    \/ ret.warnings # {}
    \/ (DOMAIN ret) \ (DcfResultKeys \cup {"raised", "warnings"}) # {}

(* C26: under the exit-multiple method the terminal value is final-year    *)
(* EBITDA * multiple when the projection has an EBITDA column and (final   *)
(* FCF / 0.7) * multiple otherwise; whenever the estimate is used, the     *)
(* result carries a flag saying so.                                        *)
C26_ExitMultipleEstimateFlagged ==
    (DcfReturned /\ args.terminal_method = "exit_multiple") =>
        LET df == SortByYear(args.df_proj.rows)
        IN  IF "ebitda" \in args.df_proj.columns
            THEN ret.terminal_value = RMul(df[Len(df)].ebitda, args.exit_multiple)
            ELSE /\ ret.terminal_value =
                        RMul(RDiv(df[Len(df)].fcf, Q(7, 10)), args.exit_multiple)
                 /\ DcfResultFlagsEstimate

-----------------------------------------------------------------------------
(* Cash conservation in the year step of lbo_model (valuation/lbo.py) and  *)
(* of simulate_lbo_cashflows and calculate_equity_fcf (financials_fmp.py). *)

InitCash == InitLboModel \/ InitFrac

NextCash == NextLboModel \/ NextFrac

SpecCash == InitCash /\ [][NextCash]_vars

(* The FCF of year k of a fractional schedule.                             *)
FracFcf(k) ==
    IF fn = "simulate_lbo_cashflows" THEN args.df[k].fcf ELSE args.df[k].fcf_operating

(* Interest, repayment (the fall of the debt balance) and equity cash flow *)
(* of year k of a fractional schedule add up to the year's FCF.            *)
FracCashConserved(k) ==
    LET interest == RMul(FracDebtBegin(k), args.interest_rate)
        repayment == RSub(FracDebtBegin(k), locals.debt_balances[k])
    IN  RLe(interest, FracFcf(k)) =>
            RAdd(RAdd(interest, repayment), locals.equity_cashflows[k]) = FracFcf(k)

(* C27: no cash is created or lost in a year.  In lbo_model, for every     *)
(* simulated year with fcf >= interest, and in simulate_lbo_cashflows and  *)
(* calculate_equity_fcf, for every simulated year with fcf >= interest and *)
(* a repayment fraction in [0,1]: interest + debt repayment + equity cash  *)
(* flow of the year = the year's FCF.                                      *)
C27_CashConserved ==
    /\ \A k \in LboSimulatedYears :
           RLe(locals.df[k].interest, locals.df[k].fcf) =>
               RAdd(RAdd(locals.df[k].interest, locals.df[k].debt_repayment),
                    locals.df[k].cash) = locals.df[k].fcf
    /\ (fn \in {"simulate_lbo_cashflows", "calculate_equity_fcf"}
           /\ RLe(Zero, args.repayment_rate) /\ RLe(args.repayment_rate, One)) =>
           \A k \in 1..(locals.i - 1) : FracCashConserved(k)

(* A finished simulate_lbo_cashflows schedule with a year whose FCF covers *)
(* a positive interest, repays part of the debt and leaves cash to equity, *)
(* e.g. debt 1000 at 8%, FCF 200, fraction 1/5: 80 + 24 + 96.              *)
C27_Witness ==
    /\ fn = "simulate_lbo_cashflows"
    /\ pc = "done"
    /\ \E k \in 1..(locals.i - 1) :
        /\ RLt(Zero, RMul(FracDebtBegin(k), args.interest_rate))
        /\ RLt(RMul(FracDebtBegin(k), args.interest_rate), FracFcf(k))
        /\ RLt(locals.debt_balances[k], FracDebtBegin(k))
        /\ RLt(Zero, locals.equity_cashflows[k])

-----------------------------------------------------------------------------
(* Equity is paid only after the debt, in lbo_model (valuation/lbo.py).    *)

(* C28: in lbo_model with debt_contrib >= 0 and interest rate >= 0, in     *)
(* every simulated year, cash > 0 implies debt_end = 0 for that year.      *)
C28_CashOnlyAfterDebtRepaid ==
    (fn = "lbo_model" /\ RLe(Zero, args.debt_contrib) /\ RLe(Zero, args.interest_rate)) =>
        \A k \in LboSimulatedYears :
            RLt(Zero, locals.df[k].cash) => locals.df[k].debt_end = Zero

(* A finished two-year schedule: a year that repays part of the debt and   *)
(* leaves no cash, then a year that repays the rest and leaves cash.       *)
C28_Witness ==
    /\ fn = "lbo_model"
    /\ pc = "done"
    /\ ret.raised = "none"
    /\ \E j, k \in LboSimulatedYears :
        /\ j < k
        /\ RLt(Zero, locals.df[j].debt_end)
        /\ locals.df[j].cash = Zero
        /\ RLt(Zero, locals.df[k].debt_begin)
        /\ locals.df[k].debt_end = Zero
        /\ RLt(Zero, locals.df[k].cash)

-----------------------------------------------------------------------------
(* The orchestrator lbo_from_ticker_complete (financials_fmp.py): the      *)
(* projection, the financing structure, the equity schedule and the exit   *)
(* scenarios.  The statement table is the one get_financials and           *)
(* calculate_profitability_ratios hand over.                               *)

CompleteRevenues == {R(80), R(100)}

(* Statement tables of one or two fiscal years, latest first.              *)
CompleteTables ==
    {[columns |-> {"date", "totalrevenue", "ebitda_margin", "ebit_margin"},
      rows |-> [k \in 1..Len(rev) |->
                   [date |-> FirstYear - k, totalrevenue |-> rev[k],
                    ebitda_margin |-> Q(1, 2), ebit_margin |-> Q(2, 5)]]] :
        rev \in SeqsUpTo(CompleteRevenues, 2)}

CompleteExitMultiples == {<<R(8)>>, <<R(8), R(10)>>}

(* The values of the parameter 'years'.                                    *)
CompleteYears == {1, 2}

(* Lines 205-228: the loop of project_operating_fcf from iteration l.i on. *)
RECURSIVE project_operating_fcf_loop(_, _)
project_operating_fcf_loop(a, l) ==
    IF l.i > a.years THEN l.projections
    ELSE LET row == project_operating_fcf_row(a.df, l, a.revenue_growth)
         IN  project_operating_fcf_loop(
                 a, [l EXCEPT !.i = l.i + 1,
                              !.revenue = row.revenue,
                              !.revenue_prev = row.revenue,
                              !.projections = Append(l.projections, row)])

(* Lines 198-228: the whole call; iloc[1] fails on a table of one row.     *)
project_operating_fcf(a) ==
    IF Len(a.df.rows) < 2 THEN [raised |-> "IndexError"]
    ELSE [raised |-> "none",
          rows |-> project_operating_fcf_loop(a, project_financials_locals(a.df))]

(* Lines 283-289.                                                          *)
define_lbo_structure(purchase_price, equity_ratio) ==
    [purchase_price |-> purchase_price,
     equity |-> RMul(purchase_price, equity_ratio),
     debt |-> RSub(purchase_price, RMul(purchase_price, equity_ratio))]

(* Lines 246-247: the projected row with its two added columns.            *)
calculate_equity_fcf_columns(row, debt_balance, fcf_equity) ==
    [year |-> row.year, revenue |-> row.revenue, ebitda |-> row.ebitda,
     ebit |-> row.ebit, capex |-> row.capex, nopat |-> row.nopat,
     working_capital_change |-> row.working_capital_change,
     fcf_operating |-> row.fcf_operating,
     debt_balance |-> debt_balance, fcf_equity |-> fcf_equity]

(* Lines 238-248: the rows from the i-th on, with the debt carried.        *)
RECURSIVE calculate_equity_fcf_rows(_, _, _, _, _)
RECURSIVE calculate_equity_fcf_carry(_, _, _, _, _)
calculate_equity_fcf_carry(df, i, y, interest_rate, repayment_rate) ==
    <<calculate_equity_fcf_columns(df[i], y.debt, y.equity_cf)>> \o
    calculate_equity_fcf_rows(df, i + 1, y.debt, interest_rate, repayment_rate)

calculate_equity_fcf_rows(df, i, debt, interest_rate, repayment_rate) ==
    IF i > Len(df) THEN <<>>
    ELSE calculate_equity_fcf_carry(
             df, i,
             calculate_equity_fcf_year(debt, df[i].fcf_operating, interest_rate,
                                       repayment_rate),
             interest_rate, repayment_rate)

(* Lines 234-248: the whole call.                                          *)
calculate_equity_fcf(df_operating_fcf, initial_debt, interest_rate, repayment_rate) ==
    calculate_equity_fcf_rows(df_operating_fcf, 1, initial_debt, interest_rate,
                              repayment_rate)

(* Lines 359-365: the copy with the function's own balances written over   *)
(* its 'debt_balance' column.                                              *)
lbo_scenario_analysis_df_sim(df_fcf, debt_initial, debt_repayment_rate) ==
    [k \in DOMAIN df_fcf |->
        [df_fcf[k] EXCEPT !.debt_balance =
            lbo_scenario_analysis_balances(Len(df_fcf), debt_initial,
                                           debt_repayment_rate)[k]]]

(* Lines 367-378 from the first of exit_multiples on.                      *)
RECURSIVE lbo_scenario_analysis_loop(_, _, _, _)
RECURSIVE lbo_scenario_analysis_append(_, _, _, _, _, _)
lbo_scenario_analysis_append(df_sim, equity_initial, multiples, results, equity_final, solved) ==
    IF solved.raised # "none" THEN [raised |-> solved.raised]
    ELSE lbo_scenario_analysis_loop(
             df_sim, equity_initial, Tail(multiples),
             Append(results,
                    lbo_scenario_analysis_row(Head(multiples), equity_final,
                                              FDiv(equity_final, equity_initial),
                                              solved.irr)))

lbo_scenario_analysis_solve(df_sim, equity_initial, multiples, results, equity_final) ==
    lbo_scenario_analysis_append(
        df_sim, equity_initial, multiples, results, equity_final,
        npf_irr(calculate_lbo_return_cashflows(Len(df_sim), equity_initial,
                                               equity_final)))

lbo_scenario_analysis_loop(df_sim, equity_initial, exit_multiples, results) ==
    IF exit_multiples = <<>> THEN [raised |-> "none", rows |-> results]
    ELSE lbo_scenario_analysis_solve(
             df_sim, equity_initial, exit_multiples, results,
             FSub(FMul(df_sim[Len(df_sim)].ebitda, Head(exit_multiples)),
                  df_sim[Len(df_sim)].debt_balance))

(* Lines 349-378: the whole call.                                          *)
lbo_scenario_analysis(df_fcf, purchase_price, equity_contribution, debt_repayment_rate, exit_multiples) ==
    lbo_scenario_analysis_loop(
        lbo_scenario_analysis_df_sim(
            df_fcf,
            RSub(purchase_price, RMul(purchase_price, equity_contribution)),
            debt_repayment_rate),
        RMul(purchase_price, equity_contribution), exit_multiples, <<>>)

InitComplete ==
    /\ fn = "lbo_from_ticker_complete"
    /\ pc = "project"
    /\ locals = None
    /\ ret = None
    /\ \E t \in CompleteTables, e \in {Q(3, 10), R(1)}, p \in {R(0), Q(1, 5)},
          r \in InterestRates, g \in {R(0), Q(1, 4)}, n \in CompleteYears,
          ms \in CompleteExitMultiples :
           args = [df_financials |-> t, purchase_price |-> R(1000),
                   equity_ratio |-> e, debt_repayment_rate |-> p,
                   interest_rate |-> r, revenue_growth |-> g, years |-> n,
                   exit_multiples |-> ms]

(* Line 32.                                                                *)
complete_project ==
    /\ fn = "lbo_from_ticker_complete"
    /\ pc = "project"
    /\ \E projected \in {project_operating_fcf(
                             [df |-> args.df_financials, years |-> args.years,
                              revenue_growth |-> args.revenue_growth])} :
          IF projected.raised # "none"
          THEN /\ ret' = [raised |-> projected.raised]
               /\ pc' = "done"
               /\ UNCHANGED locals
          ELSE /\ locals' = [df_operating_fcf |-> projected.rows]
               /\ pc' = "structure"
               /\ UNCHANGED ret
    /\ UNCHANGED <<fn, args>>

(* Line 35.                                                                *)
complete_structure ==
    /\ fn = "lbo_from_ticker_complete"
    /\ pc = "structure"
    /\ locals' = [df_operating_fcf |-> locals.df_operating_fcf,
                  lbo_structure |-> define_lbo_structure(args.purchase_price,
                                                         args.equity_ratio)]
    /\ pc' = "equity_fcf"
    /\ UNCHANGED <<fn, args, ret>>

(* Lines 38-39.                                                            *)
complete_equity_fcf ==
    /\ fn = "lbo_from_ticker_complete"
    /\ pc = "equity_fcf"
    /\ locals' = [df_operating_fcf |-> locals.df_operating_fcf,
                  lbo_structure |-> locals.lbo_structure,
                  df_equity_fcf |-> calculate_equity_fcf(
                                        locals.df_operating_fcf,
                                        locals.lbo_structure.debt,
                                        args.interest_rate,
                                        args.debt_repayment_rate)]
    /\ pc' = "scenarios"
    /\ UNCHANGED <<fn, args, ret>>

(* Lines 42-43.                                                            *)
complete_scenarios ==
    /\ fn = "lbo_from_ticker_complete"
    /\ pc = "scenarios"
    /\ \E scenarios \in {lbo_scenario_analysis(
                             locals.df_equity_fcf, args.purchase_price,
                             args.equity_ratio, args.debt_repayment_rate,
                             args.exit_multiples)} :
          IF scenarios.raised # "none"
          THEN /\ ret' = [raised |-> scenarios.raised]
               /\ pc' = "done"
               /\ UNCHANGED locals
          ELSE /\ locals' = [df_operating_fcf |-> locals.df_operating_fcf,
                             lbo_structure |-> locals.lbo_structure,
                             df_equity_fcf |-> locals.df_equity_fcf,
                             df_scenarios |-> scenarios.rows]
               /\ pc' = "return"
               /\ UNCHANGED ret
    /\ UNCHANGED <<fn, args>>

(* Lines 46-50.                                                            *)
complete_return ==
    /\ fn = "lbo_from_ticker_complete"
    /\ pc = "return"
    /\ ret' = [raised |-> "none",
               fcf_operating |-> locals.df_operating_fcf,
               equity_fcf |-> locals.df_equity_fcf,
               scenarios |-> locals.df_scenarios]
    /\ pc' = "done"
    /\ UNCHANGED <<fn, args, locals>>

NextComplete ==
    \/ complete_project
    \/ complete_structure
    \/ complete_equity_fcf
    \/ complete_scenarios
    \/ complete_return

SpecComplete == InitComplete /\ [][NextComplete]_vars

CompleteReturned ==
    /\ fn = "lbo_from_ticker_complete"
    /\ pc = "done"
    /\ ret.raised = "none"

(* The final equity of a scenario on the returned 'equity_fcf' table, to   *)
(* the two decimals the scenario table keeps.                              *)
CompleteEquityOnReturnedSchedule(multiple_exit) ==
    round2(RSub(RMul(ret.equity_fcf[Len(ret.equity_fcf)].ebitda, multiple_exit),
                ret.equity_fcf[Len(ret.equity_fcf)].debt_balance))

(* C29: in the result of lbo_from_ticker_complete, for every exit          *)
(* multiple, the scenario's final equity equals final-year EBITDA times    *)
(* the multiple minus the last debt_balance of the returned 'equity_fcf'   *)
(* table.                                                                  *)
C29_ScenariosOnReturnedSchedule ==
    CompleteReturned =>
        \A k \in DOMAIN ret.scenarios :
            ret.scenarios[k].Equity_Final =
                CompleteEquityOnReturnedSchedule(ret.scenarios[k].Exit_Multiple)

-----------------------------------------------------------------------------
(* The net debt behind the DCF equity value of pipeline_value_report       *)
(* (valuation/dcf_and_reporting.py).                                       *)

PipelineReturned ==
    /\ fn = "pipeline_value_report"
    /\ pc = "done"
    /\ ret.raised = "none"

(* C30: in the result of pipeline_value_report, the DCF equity value       *)
(* equals the DCF enterprise value minus the net debt calculate_net_debt   *)
(* derives from the statement table, for every derived net debt, a         *)
(* negative one (net cash) included.                                       *)
C30_EquityIsEvMinusDerivedNetDebt ==
    PipelineReturned =>
        ret.dcf.equity_value = FSub(ret.dcf.enterprise_value, args.df_fin.net_debt)

=============================================================================
